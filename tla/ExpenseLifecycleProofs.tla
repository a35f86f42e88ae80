------------------------ MODULE ExpenseLifecycleProofs ------------------------
(***************************************************************************)
(* Proofs about ExpenseLifecycle, for any users, rules, amounts, projects  *)
(* and number of expenses; and, at the end, about the rule table that      *)
(* gives an expense its chain: the loop that reads it, for any table.      *)
(***************************************************************************)
EXTENDS ExpenseLifecycle, ApprovalMatrixTable, FiniteSetTheorems, WellFoundedInduction, TLAPS

---------------------------------------------------------------------------
\* Chains: what a submission can be given.

\* There are finitely many roles, so a chain has a length.
LEMMA RoleFinite == IsFiniteSet(Role)
<1>1. \A S, x : IsFiniteSet(S) => IsFiniteSet(S \cup {x})
  BY FS_AddElement
<1>2. IsFiniteSet({})
  BY FS_EmptySet
<1>3. IsFiniteSet({"SUPER_ADMIN", "MD", "PM", "PROJECT_CONTROL", "COST_CONTROL"})
  <2>1. IsFiniteSet({} \cup {"SUPER_ADMIN"} \cup {"MD"} \cup {"PM"}
                       \cup {"PROJECT_CONTROL"} \cup {"COST_CONTROL"})
    BY <1>1, <1>2
  <2>2. {} \cup {"SUPER_ADMIN"} \cup {"MD"} \cup {"PM"} \cup {"PROJECT_CONTROL"}
           \cup {"COST_CONTROL"}
        = {"SUPER_ADMIN", "MD", "PM", "PROJECT_CONTROL", "COST_CONTROL"}
    OBVIOUS
  <2> QED BY <2>1, <2>2
<1>4. IsFiniteSet({"SUPER_ADMIN", "MD", "PM", "PROJECT_CONTROL", "COST_CONTROL"}
                  \cup {"FINANCE"} \cup {"GA"} \cup {"HR"} \cup {"STAFF"} \cup {"WORKER"})
  BY <1>1, <1>3
<1>5. {"SUPER_ADMIN", "MD", "PM", "PROJECT_CONTROL", "COST_CONTROL"}
      \cup {"FINANCE"} \cup {"GA"} \cup {"HR"} \cup {"STAFF"} \cup {"WORKER"} = Role
  BY DEF Role
<1> QED
  BY <1>4, <1>5

LEMMA FunctionIsSeq ==
    ASSUME NEW n \in Nat, NEW S, NEW f \in [1 .. n -> S]
    PROVE  f \in Seq(S)
  OBVIOUS

\* A chain the matrix resolves to is a sequence of roles.
LEMMA MatrixChainType ==
    ASSUME NEW ruleset \in SUBSET RulePool, NEW amount, NEW category,
           NEW chain \in MatrixChains(ruleset, amount, category)
    PROVE  chain \in Seq(Role)
<1> DEFINE required == {rule.required_role : rule \in MatchingRules(ruleset, amount, category)}
<1>1. required \subseteq Role
  BY PoolAssumption DEF MatchingRules, ApprovalRule
<1>2. Cardinality(required) \in Nat
  BY <1>1, RoleFinite, FS_Subset, FS_CardinalityType
<1>3. chain \in [1 .. Cardinality(required) -> required]
  BY DEF MatrixChains
<1>4. chain \in [1 .. Cardinality(required) -> Role]
  BY <1>1, <1>3
<1> QED
  BY <1>2, <1>4, FunctionIsSeq

\* A submission chain is a sequence of roles that COST_CONTROL is part of.
LEMMA SubmissionChainType ==
    ASSUME NEW ruleset \in SUBSET RulePool, NEW expense_type, NEW amount, NEW category,
           NEW chain \in SubmissionChains(ruleset, expense_type, amount, category)
    PROVE  chain \in Seq(Role) /\ "COST_CONTROL" \in RolesIn(chain) /\ Len(chain) > 0
<1>1. CASE expense_type = "reimbursement"
  <2>1. chain = <<"GA", "COST_CONTROL", "FINANCE">>
    BY <1>1 DEF SubmissionChains, ReimbursementChain
  <2> QED
    BY <2>1 DEF Role, RolesIn
<1>2. CASE expense_type # "reimbursement"
  <2>1. PICK matrix \in MatrixChains(ruleset, amount, category) :
            chain = IF "COST_CONTROL" \in RolesIn(matrix) THEN matrix
                    ELSE <<"COST_CONTROL">> \o matrix
    BY <1>2 DEF SubmissionChains
  <2>2. matrix \in Seq(Role)
    BY <2>1, MatrixChainType
  <2>3. CASE "COST_CONTROL" \in RolesIn(matrix)
    BY <2>1, <2>2, <2>3 DEF RolesIn
  <2>4. CASE "COST_CONTROL" \notin RolesIn(matrix)
    <3>1. chain = <<"COST_CONTROL">> \o matrix
      BY <2>1, <2>4
    <3>2. chain \in Seq(Role) /\ Len(chain) > 0 /\ chain[1] = "COST_CONTROL"
      BY <2>2, <3>1 DEF Role
    <3> QED
      BY <3>2 DEF RolesIn
  <2> QED
    BY <2>3, <2>4
<1> QED
  BY <1>1, <1>2

---------------------------------------------------------------------------
\* Rows: every effect of a permitted operation keeps a row well-formed.

\* The columns that neither a signature nor an event changes.
Untouched(row, new) ==
    /\ new.amount = row.amount /\ new.category = row.category
    /\ new.payroll = row.payroll /\ new.project = row.project
    /\ new.approval_chain = row.approval_chain
    /\ new.rejection_reason = row.rejection_reason

\* Records are changed a few columns at a time; the other columns stay.
LEMMA HistoryColumn ==
    ASSUME NEW row \in Expense, NEW history \in Seq(HistoryEvent)
    PROVE  LET new == [row EXCEPT !.approval_history = history]
           IN  /\ new \in Expense
               /\ new.approval_history = history
               /\ Untouched(row, new)
               /\ new.status = row.status
               /\ new.current_approver_role = row.current_approver_role
               /\ new.approval_step = row.approval_step
  BY DEF Expense, Untouched

Action == {"SUBMIT", "RECEIPT_REVIEW", "VERIFY", "APPROVE", "PAY", "HARD_LOCK", "REJECT"}

\* append_history_event appends and touches nothing else.
LEMMA WithEventFacts ==
    ASSUME NEW row \in Expense, NEW actor \in User, NEW action \in Action
    PROVE  LET new == WithEvent(row, action, actor)
           IN  /\ new \in Expense
               /\ new.approval_history = Append(row.approval_history,
                      [action |-> action, role |-> row.current_approver_role, user |-> actor])
               /\ Untouched(row, new)
               /\ new.status = row.status
               /\ new.current_approver_role = row.current_approver_role
               /\ new.approval_step = row.approval_step
<1> DEFINE event == [action |-> action, role |-> row.current_approver_role, user |-> actor]
           history == Append(row.approval_history, event)
<1>1. event \in HistoryEvent
  BY DEF HistoryEvent, Expense, Action
<1>2. history \in Seq(HistoryEvent)
  BY <1>1 DEF Expense
<1>3. WithEvent(row, action, actor) = [row EXCEPT !.approval_history = history]
  BY DEF WithEvent
<1> HIDE DEF history
<1>4. LET new == WithEvent(row, action, actor)
      IN  /\ new \in Expense
          /\ new.approval_history = history
          /\ Untouched(row, new)
          /\ new.status = row.status
          /\ new.current_approver_role = row.current_approver_role
          /\ new.approval_step = row.approval_step
  BY <1>2, <1>3, HistoryColumn
<1> QED
  BY <1>4 DEF history

\* advance_approval_chain: one more signature, and the position that follows from it.
LEMMA AdvancedFacts ==
    ASSUME NEW row \in Expense, row.approval_step < Len(row.approval_chain)
    PROVE  LET new == Advanced(row)
           IN  /\ new \in Expense
               /\ new.approval_history = row.approval_history
               /\ Untouched(row, new)
               /\ new.approval_step = row.approval_step + 1
               /\ new.approval_step = Len(row.approval_chain) =>
                      new.status = "approved" /\ new.current_approver_role = NULL
               /\ new.approval_step < Len(row.approval_chain) =>
                      /\ new.current_approver_role = row.approval_chain[new.approval_step + 1]
                      /\ new.status = IF row.approval_chain[new.approval_step] = "COST_CONTROL"
                                      THEN "verified" ELSE row.status
<1> DEFINE step == row.approval_step + 1
           last == step = Len(row.approval_chain)
           status == IF last THEN "approved"
                     ELSE IF row.approval_chain[step] = "COST_CONTROL"
                          THEN "verified" ELSE row.status
           role == IF last THEN NULL ELSE row.approval_chain[step + 1]
<1>1. /\ step \in Nat /\ step \in 1 .. Len(row.approval_chain)
      /\ row.approval_chain \in Seq(Role)
  BY DEF Expense
<1>2. Advanced(row) = [row EXCEPT !.approval_step = step, !.status = status,
                                  !.current_approver_role = role]
  <2>1. CASE last
    BY <1>1, <2>1 DEF Advanced
  <2>2. CASE ~ last
    BY <1>1, <2>2 DEF Advanced
  <2> QED
    BY <2>1, <2>2
<1>3. status \in ExpenseStatus /\ role \in Role \cup {NULL}
  BY <1>1 DEF Expense, ExpenseStatus
<1> HIDE DEF status, role, step
<1> DEFINE new == Advanced(row)
<1>4. step \in Nat
  BY <1>1
<1> HIDE DEF last, new
<1>5. new = [row EXCEPT !.approval_step = step, !.status = status,
                        !.current_approver_role = role]
  BY <1>2 DEF new
<1>6. new \in Expense
  BY <1>3, <1>4, <1>5 DEF Expense
<1>7. new.status = status /\ new.current_approver_role = role /\ new.approval_step = step
  BY <1>3, <1>4, <1>5 DEF Expense
<1>8. new.approval_history = row.approval_history /\ Untouched(row, new)
  BY <1>3, <1>4, <1>5 DEF Expense, Untouched
<1>9. step = Len(row.approval_chain) => status = "approved" /\ role = NULL
  BY DEF status, role, last
<1>10. step < Len(row.approval_chain) =>
           /\ role = row.approval_chain[step + 1]
           /\ status = IF row.approval_chain[step] = "COST_CONTROL"
                       THEN "verified" ELSE row.status
  <2>1. step < Len(row.approval_chain) => ~ last
    BY <1>1 DEF last
  <2> QED
    BY <2>1 DEF status, role
<1>11. step = row.approval_step + 1
  BY DEF step
<1> QED
  BY <1>6, <1>7, <1>8, <1>9, <1>10, <1>11 DEF new

---------------------------------------------------------------------------
\* The invariant of a row, and the effects that preserve it.

RowInv(row) ==
    /\ PositionOK(row)
    /\ StampOK(row)
    /\ row.status \notin {"draft", "rejected"} /\ row.approval_chain # <<>> =>
           SignedOK(row) /\ "COST_CONTROL" \in RolesIn(row.approval_chain)

\* A sign-off of a row in flight by a user entitled to it, with any stamp.
LEMMA SignOffKeeps ==
    ASSUME NEW row \in Expense, RowInv(row), row.status \in InFlight,
           NEW actor \in User, RoleCanAct(RoleOf[actor], row.current_approver_role),
           NEW action \in SignOff,
           NEW stamped \in Expense, Untouched(row, stamped),
           stamped.status = row.status,
           stamped.current_approver_role = row.current_approver_role,
           stamped.approval_step = row.approval_step,
           stamped.approval_history = row.approval_history
    PROVE  LET new == Advanced(WithEvent(stamped, action, actor))
           IN  /\ new \in Expense /\ RowInv(new) /\ Untouched(row, new)
               /\ new.approval_step = row.approval_step + 1
               /\ new.status \in InFlight \cup {"approved"}
<1> DEFINE marked == WithEvent(stamped, action, actor)
           new == Advanced(marked)
           event == [action |-> action, role |-> row.current_approver_role, user |-> actor]
           chain == row.approval_chain
           step == row.approval_step + 1
<1>1. /\ row.approval_step < Len(chain) /\ step \in 1 .. Len(chain)
      /\ row.current_approver_role = chain[step]
      /\ ~ row.rejection_reason /\ chain # <<>>
      /\ chain \in Seq(Role) /\ row.approval_history \in Seq(HistoryEvent)
      /\ row.approval_step \in Nat
  BY DEF RowInv, PositionOK, InFlight, Expense
<1>2. /\ marked \in Expense /\ Untouched(row, marked)
      /\ marked.approval_history = Append(row.approval_history, event)
      /\ marked.status = row.status /\ marked.approval_step = row.approval_step
  <2>1. action \in Action
    BY DEF SignOff, Action
  <2> QED
    BY <2>1, WithEventFacts DEF Untouched
<1>3. marked.approval_step < Len(marked.approval_chain)
  BY <1>1, <1>2 DEF Untouched
<1> HIDE DEF marked
<1>4. /\ new \in Expense /\ Untouched(row, new)
      /\ new.approval_history = Append(row.approval_history, event)
      /\ new.approval_step = step
      /\ step = Len(chain) => new.status = "approved" /\ new.current_approver_role = NULL
      /\ step < Len(chain) =>
             /\ new.current_approver_role = chain[step + 1]
             /\ new.status = IF chain[step] = "COST_CONTROL" THEN "verified" ELSE row.status
  <2> DEFINE steps == marked.approval_step + 1
  <2>1. /\ new \in Expense /\ Untouched(marked, new)
        /\ new.approval_history = marked.approval_history
        /\ new.approval_step = steps
        /\ steps = Len(marked.approval_chain) =>
               new.status = "approved" /\ new.current_approver_role = NULL
        /\ steps < Len(marked.approval_chain) =>
               /\ new.current_approver_role = marked.approval_chain[steps + 1]
               /\ new.status = IF marked.approval_chain[steps] = "COST_CONTROL"
                               THEN "verified" ELSE marked.status
    BY <1>2, <1>3, AdvancedFacts
  <2>2. steps = step /\ marked.approval_chain = chain
    BY <1>2 DEF Untouched
  <2> HIDE DEF new, steps, step, event
  <2>3. Untouched(row, new)
    BY <1>2, <2>1 DEF Untouched
  <2> QED
    BY <1>2, <2>1, <2>2, <2>3
<1> HIDE DEF new
<1>5. new.status \in InFlight \cup {"approved"} /\ new.approval_chain = chain
  BY <1>1, <1>4 DEF InFlight, Untouched
<1>6. PositionOK(new)
  BY <1>1, <1>4, <1>5 DEF PositionOK, InFlight, Settled, Untouched
<1>9. "COST_CONTROL" \in RolesIn(chain)
  BY <1>1 DEF RowInv, InFlight
<1>7. StampOK(new)
  <2>1. SignedRoles(new) = SignedRoles(row) \cup {chain[step]}
    BY <1>1, <1>4, <1>5 DEF SignedRoles
  <2>2. row.status = "verified" <=> "COST_CONTROL" \in SignedRoles(row)
    BY DEF RowInv, StampOK
  <2>3. CASE step < Len(chain)
    <3>1. new.status = IF chain[step] = "COST_CONTROL" THEN "verified" ELSE row.status
      BY <1>4, <2>3
    <3> HIDE DEF step
    <3> QED
      BY <1>5, <2>1, <2>2, <3>1 DEF StampOK, InFlight, Settled
  <2>4. CASE step = Len(chain)
    <3>1. new.status = "approved"
      BY <1>4, <2>4
    <3>2. "COST_CONTROL" \in SignedRoles(new)
      BY <1>1, <1>4, <1>5, <1>9, <2>4 DEF SignedRoles, RolesIn
    <3> QED
      BY <3>1, <3>2 DEF StampOK, InFlight, Settled
  <2> QED
    BY <1>1, <2>3, <2>4
<1>8. SignedOK(new)
  <2> DEFINE history == row.approval_history
             start == Len(history) - row.approval_step
  <2>1. SignedOK(row) /\ SubmittedAt(row) = start
    BY <1>1 DEF RowInv, InFlight, SubmittedAt, EventsAfterSigning
  <2>2. /\ start >= 1 /\ history[start].action = "SUBMIT"
        /\ \A i \in 1 .. row.approval_step :
               /\ history[start + i].action \in SignOff
               /\ history[start + i].role = chain[i]
               /\ RoleCanAct(RoleOf[history[start + i].user], chain[i])
    BY <2>1 DEF SignedOK
  <2>3. Len(new.approval_history) = Len(history) + 1 /\ SubmittedAt(new) = start
    <3>1. Len(new.approval_history) = Len(history) + 1
      <4>1. Len(Append(history, event)) = Len(history) + 1
        BY <1>1
      <4> QED
        BY <1>4, <4>1
    <3>2. EventsAfterSigning(new) = 0
      BY <1>5 DEF EventsAfterSigning, InFlight
    <3> QED
      <4>1. SubmittedAt(new) = Len(new.approval_history) - new.approval_step - 0
        BY <3>2 DEF SubmittedAt
      <4>2. Len(history) \in Nat /\ row.approval_step \in Nat /\ new.approval_step = step
        BY <1>1, <1>4
      <4>3. \A n, k \in Nat : (n + 1) - (k + 1) - 0 = n - k
        OBVIOUS
      <4> HIDE DEF history
      <4> QED
        BY <3>1, <4>1, <4>2, <4>3
  <2>4. \A k \in 1 .. Len(history) : new.approval_history[k] = history[k]
    BY <1>1, <1>4
  <2>5. new.approval_history[start + step] = event
    BY <1>1, <1>4
  <2>6. \A i \in 1 .. step :
           /\ new.approval_history[start + i].action \in SignOff
           /\ new.approval_history[start + i].role = chain[i]
           /\ RoleCanAct(RoleOf[new.approval_history[start + i].user], chain[i])
    <3> TAKE i \in 1 .. step
    <3>1. CASE i = step
      BY <1>1, <2>5, <3>1
    <3>2. CASE i # step
      <4>1. i \in 1 .. row.approval_step /\ start + i \in 1 .. Len(history)
        BY <1>1, <2>2, <3>2
      <4> QED
        BY <2>2, <2>4, <4>1
    <3> QED
      BY <3>1, <3>2
  <2>7. start \in 1 .. Len(history)
    BY <1>1, <2>2
  <2> QED
    BY <1>4, <1>5, <2>2, <2>3, <2>4, <2>6, <2>7 DEF SignedOK, InFlight, Settled
<1> QED
  <2>1. RowInv(new)
    BY <1>5, <1>6, <1>7, <1>8, <1>9 DEF RowInv
  <2> QED
    BY <1>4, <1>5, <2>1 DEF new, marked

LEMMA ApproveKeeps ==
    ASSUME NEW row \in Expense, RowInv(row), NEW actor \in User, CanApprove(actor, row)
    PROVE  LET new == Approved(row, actor)
           IN  /\ new \in Expense /\ RowInv(new) /\ Untouched(row, new)
               /\ new.approval_step = row.approval_step + 1
               /\ new.status \in InFlight \cup {"approved"}
<1> DEFINE stamped == [row EXCEPT !.approved_by = actor]
<1>1. /\ stamped \in Expense /\ Untouched(row, stamped)
      /\ stamped.status = row.status
      /\ stamped.current_approver_role = row.current_approver_role
      /\ stamped.approval_step = row.approval_step
      /\ stamped.approval_history = row.approval_history
  BY DEF Expense, Untouched
<1>2. Approved(row, actor) = Advanced(WithEvent(stamped, "APPROVE", actor))
  BY DEF Approved
<1>3. row.status \in InFlight /\ RoleCanAct(RoleOf[actor], row.current_approver_role)
  BY DEF CanApprove
<1>4. "APPROVE" \in SignOff
  BY DEF SignOff
<1> HIDE DEF stamped
<1> QED
  BY <1>1, <1>2, <1>3, <1>4, SignOffKeeps

LEMMA VerifyKeeps ==
    ASSUME NEW row \in Expense, RowInv(row), NEW actor \in User, CanVerify(actor, row)
    PROVE  LET new == Verified(row, actor)
           IN  /\ new \in Expense /\ RowInv(new) /\ Untouched(row, new)
               /\ new.approval_step = row.approval_step + 1
               /\ new.status \in InFlight \cup {"approved"}
<1> DEFINE stamped == IF RoleOf[actor] \in {"GA", "HR"}
                      THEN [row EXCEPT !.receipt_reviewed_by = actor]
                      ELSE [row EXCEPT !.verified_by = actor]
<1>1. /\ stamped \in Expense /\ Untouched(row, stamped)
      /\ stamped.status = row.status
      /\ stamped.current_approver_role = row.current_approver_role
      /\ stamped.approval_step = row.approval_step
      /\ stamped.approval_history = row.approval_history
  <2>1. CASE RoleOf[actor] \in {"GA", "HR"}
    <3>1. stamped = [row EXCEPT !.receipt_reviewed_by = actor]
      BY <2>1
    <3> QED
      BY <3>1 DEF Expense, Untouched
  <2>2. CASE RoleOf[actor] \notin {"GA", "HR"}
    <3>1. stamped = [row EXCEPT !.verified_by = actor]
      BY <2>2
    <3> QED
      BY <3>1 DEF Expense, Untouched
  <2> QED
    BY <2>1, <2>2
<1>2. Verified(row, actor) = Advanced(WithEvent(stamped, VerifyAction(actor), actor))
  BY DEF Verified
<1>3. row.status \in InFlight /\ RoleCanAct(RoleOf[actor], row.current_approver_role)
  BY DEF CanVerify, InFlight
<1>4. VerifyAction(actor) \in SignOff
  BY DEF SignOff, VerifyAction
<1> HIDE DEF stamped
<1> QED
  BY <1>1, <1>2, <1>3, <1>4, SignOffKeeps

LEMMA NewKeeps ==
    ASSUME NEW expense_type \in {"regular", "reimbursement"}, NEW p \in Project \cup {NULL},
           NEW amount \in Amounts, NEW category \in Categories, NEW actor \in User
    PROVE  LET new == NewExpense(expense_type, p, amount, category, actor)
           IN  new \in Expense /\ RowInv(new)
<1> DEFINE new == NewExpense(expense_type, p, amount, category, actor)
<1>1. new \in Expense
  BY AmountAssumption DEF NewExpense, Expense, ExpenseStatus
<1>2. new.status = "draft" /\ new.current_approver_role = NULL /\ new.rejection_reason = FALSE
  BY DEF NewExpense
<1> HIDE DEF new
<1>3. RowInv(new)
  BY <1>2 DEF RowInv, PositionOK, StampOK, InFlight, Settled
<1> QED
  BY <1>1, <1>3 DEF new

LEMMA PayrollKeeps ==
    ASSUME NEW amount \in Amounts, NEW actor \in User
    PROVE  LET new == PayrollExpense(amount, actor)
           IN  new \in Expense /\ RowInv(new)
<1> DEFINE new == PayrollExpense(amount, actor)
<1>1. new \in Expense
  <2> DEFINE base == NewExpense("regular", NULL, amount, "Personnel", actor)
  <2>1. base \in Expense
    BY DEF NewExpense, Expense, ExpenseStatus, Category
  <2>2. new = [base EXCEPT !.payroll = TRUE, !.status = "approved", !.approved_by = actor]
    BY DEF PayrollExpense
  <2> HIDE DEF base, new
  <2> QED
    BY <2>1, <2>2 DEF Expense, ExpenseStatus
<1>2. /\ new.status = "approved" /\ new.payroll = TRUE /\ new.rejection_reason = FALSE
      /\ new.current_approver_role = NULL /\ new.approval_chain = <<>> /\ new.approval_step = 0
  BY DEF PayrollExpense, NewExpense
<1> HIDE DEF new
<1>3. RowInv(new)
  BY <1>2 DEF RowInv, PositionOK, StampOK, InFlight, Settled
<1> QED
  BY <1>1, <1>3 DEF new

LEMMA EditKeeps ==
    ASSUME NEW row \in Expense, RowInv(row), row.status = "draft",
           NEW amount \in Amounts, NEW category \in Categories
    PROVE  LET new == Edited(row, amount, category)
           IN  new \in Expense /\ RowInv(new)
<1> DEFINE new == Edited(row, amount, category)
<1> HIDE DEF new
<1>1. new = [row EXCEPT !.amount = amount, !.category = category]
  BY DEF Edited, new
<1>2. new \in Expense
  BY <1>1, AmountAssumption DEF Expense
<1>3. /\ new.status = "draft" /\ new.current_approver_role = row.current_approver_role
      /\ new.rejection_reason = row.rejection_reason
  BY <1>1 DEF Expense
<1>4. RowInv(new)
  BY <1>3 DEF RowInv, PositionOK, StampOK, InFlight, Settled
<1> QED
  BY <1>2, <1>4 DEF new

LEMMA SubmitKeeps ==
    ASSUME NEW row \in Expense, NEW actor \in User, NEW chain \in Seq(Role),
           Len(chain) > 0, "COST_CONTROL" \in RolesIn(chain)
    PROVE  LET new == Started(row, actor, chain)
           IN  new \in Expense /\ RowInv(new)
<1> DEFINE started == [row EXCEPT !.status = "submitted", !.submitted_by = actor,
                          !.approval_chain = chain, !.approval_step = 0,
                          !.current_approver_role = IF chain = <<>> THEN NULL ELSE chain[1],
                          !.rejection_reason = FALSE]
           new == WithEvent(started, "SUBMIT", actor)
           event == [action |-> "SUBMIT", role |-> chain[1], user |-> actor]
           history == row.approval_history
<1>1. chain[1] \in Role /\ chain # <<>> /\ Len(chain) \in Nat /\ 1 \in 1 .. Len(chain)
  OBVIOUS
<1>2. started = [row EXCEPT !.status = "submitted", !.submitted_by = actor,
                          !.approval_chain = chain, !.approval_step = 0,
                          !.current_approver_role = chain[1],
                          !.rejection_reason = FALSE]
  BY <1>1
<1>3. new = Started(row, actor, chain)
  BY DEF Started
<1> HIDE DEF started
<1>4. started \in Expense
  BY <1>1, <1>2 DEF Expense, ExpenseStatus
<1>5. /\ started.status = "submitted" /\ started.approval_chain = chain
      /\ started.approval_step = 0 /\ started.current_approver_role = chain[1]
      /\ started.rejection_reason = FALSE /\ started.approval_history = history
  BY <1>1, <1>2 DEF Expense
<1>6. /\ new \in Expense /\ new.status = "submitted" /\ new.approval_chain = chain
      /\ new.approval_step = 0 /\ new.current_approver_role = chain[1]
      /\ new.rejection_reason = FALSE /\ new.approval_history = Append(history, event)
  <2>1. "SUBMIT" \in Action
    BY DEF Action
  <2>2. /\ new \in Expense /\ Untouched(started, new)
        /\ new.status = started.status /\ new.approval_step = started.approval_step
        /\ new.current_approver_role = started.current_approver_role
        /\ new.approval_history = Append(started.approval_history,
               [action |-> "SUBMIT", role |-> started.current_approver_role, user |-> actor])
    BY <1>4, <2>1, WithEventFacts
  <2> HIDE DEF new
  <2> QED
    BY <1>5, <2>2 DEF Untouched
<1> HIDE DEF new
<1>7. PositionOK(new)
  BY <1>1, <1>6 DEF PositionOK, InFlight, Settled
<1>8. StampOK(new)
  BY <1>6 DEF StampOK, SignedRoles, InFlight, Settled
<1>9. SignedOK(new)
  <2>1. history \in Seq(HistoryEvent) /\ Len(history) \in Nat
    BY DEF Expense
  <2>2. Len(new.approval_history) = Len(history) + 1
        /\ new.approval_history[Len(history) + 1] = event
    BY <1>6, <2>1
  <2>3. EventsAfterSigning(new) = 0
    BY <1>6 DEF EventsAfterSigning
  <2>4. SubmittedAt(new) = Len(history) + 1
    BY <1>6, <2>1, <2>2, <2>3 DEF SubmittedAt
  <2> QED
    BY <1>6, <2>1, <2>2, <2>4 DEF SignedOK, Settled
<1> QED
  BY <1>3, <1>6, <1>7, <1>8, <1>9 DEF RowInv

\* Payment and period close add one event behind the signatures.
LEMMA SettleKeeps ==
    ASSUME NEW row \in Expense, RowInv(row), NEW actor \in User,
           NEW settled \in Expense, Untouched(row, settled),
           settled.approval_step = row.approval_step,
           settled.approval_history = row.approval_history,
           settled.current_approver_role = NULL,
           NEW action,
           \/ row.status = "approved" /\ settled.status = "paid" /\ action = "PAY"
           \/ row.status = "paid" /\ settled.status = "hard_locked" /\ action = "HARD_LOCK"
    PROVE  LET new == WithEvent(settled, action, actor)
           IN  new \in Expense /\ RowInv(new) /\ Untouched(row, new)
               /\ new.approval_step = row.approval_step /\ new.status = settled.status
<1> DEFINE new == WithEvent(settled, action, actor)
           event == [action |-> action, role |-> NULL, user |-> actor]
           history == row.approval_history
           chain == row.approval_chain
<1>1. /\ new \in Expense /\ Untouched(row, new)
      /\ new.approval_step = row.approval_step /\ new.status = settled.status
      /\ new.current_approver_role = NULL
      /\ new.approval_history = Append(history, event)
  <2>1. action \in Action
    BY DEF Action
  <2> QED
    BY <2>1, WithEventFacts DEF Untouched
<1> HIDE DEF new
<1>2. /\ row.approval_step = Len(chain) /\ ~ row.rejection_reason
      /\ history \in Seq(HistoryEvent) /\ Len(history) \in Nat
      /\ chain \in Seq(Role) /\ Len(chain) \in Nat
      /\ new.approval_chain = chain /\ new.rejection_reason = row.rejection_reason
      /\ new.payroll = row.payroll
  BY <1>1 DEF RowInv, PositionOK, Settled, Expense, Untouched
<1>3. PositionOK(new)
  BY <1>1, <1>2 DEF PositionOK, InFlight, Settled
<1>4. StampOK(new)
  <2>1. SignedRoles(new) = SignedRoles(row)
    BY <1>1, <1>2 DEF SignedRoles
  <2> QED
    BY <1>1, <1>2, <2>1 DEF RowInv, StampOK, InFlight, Settled
<1>5. ASSUME chain # <<>>
      PROVE  SignedOK(new) /\ "COST_CONTROL" \in RolesIn(chain)
  <2> DEFINE start == SubmittedAt(row)
  <2>1. SignedOK(row) /\ "COST_CONTROL" \in RolesIn(chain)
    BY <1>5 DEF RowInv
  <2>2. /\ start = Len(history) - row.approval_step - EventsAfterSigning(row)
        /\ EventsAfterSigning(row) = IF row.status = "approved" THEN 0 ELSE 1
        /\ EventsAfterSigning(new) = EventsAfterSigning(row) + 1
    BY <1>1 DEF SubmittedAt, EventsAfterSigning
  <2>3. Len(new.approval_history) = Len(history) + 1
        /\ new.approval_history[Len(history) + 1] = event
        /\ \A k \in 1 .. Len(history) : new.approval_history[k] = history[k]
    BY <1>1, <1>2
  <2>4. SubmittedAt(new) = start /\ start \in Int
    BY <1>1, <1>2, <2>2, <2>3 DEF SubmittedAt
  <2>5. /\ start >= 1 /\ history[start].action = "SUBMIT"
        /\ \A i \in 1 .. row.approval_step :
               /\ history[start + i].action \in SignOff
               /\ history[start + i].role = chain[i]
               /\ RoleCanAct(RoleOf[history[start + i].user], chain[i])
        /\ row.status = "paid" => history[start + row.approval_step + 1].action = "PAY"
    BY <2>1 DEF SignedOK, Settled
  <2>6. \A k \in 0 .. row.approval_step : new.approval_history[start + k] = history[start + k]
    <3> TAKE k \in 0 .. row.approval_step
    <3>1. EventsAfterSigning(row) \in {0, 1} /\ row.approval_step \in Nat /\ start >= 1
      BY <1>2, <2>2, <2>5
    <3>2. start + row.approval_step = Len(history) - EventsAfterSigning(row)
      BY ONLY <1>2, <2>2, <2>4, <3>1
    <3> HIDE DEF start
    <3>3. start + k \in 1 .. Len(history)
      BY <1>2, <2>4, <3>1, <3>2
    <3> QED
      BY <2>3, <3>3
  <2>7. new.approval_history[start].action = "SUBMIT"
    <3>1. start + 0 = start /\ 0 \in 0 .. row.approval_step
      BY <1>2, <2>4
    <3> QED
      BY <2>5, <2>6, <3>1
  <2>8. \A i \in 1 .. row.approval_step :
           /\ new.approval_history[start + i].action \in SignOff
           /\ new.approval_history[start + i].role = chain[i]
           /\ RoleCanAct(RoleOf[new.approval_history[start + i].user], chain[i])
    <3> TAKE i \in 1 .. row.approval_step
    <3>1. i \in 0 .. row.approval_step
      BY <1>2
    <3> QED
      BY <2>5, <2>6, <3>1
  <2>9. CASE row.status = "approved"
    <3>1. start + row.approval_step + 1 = Len(history) + 1
      BY <1>2, <2>2, <2>4, <2>9
    <3>2. new.approval_history[start + row.approval_step + 1].action = "PAY"
      BY <2>3, <2>9, <3>1
    <3>3. new.status = "paid"
      BY <1>1, <2>9
    <3> QED
      BY <1>1, <1>2, <2>1, <2>4, <2>5, <2>7, <2>8, <3>2, <3>3 DEF SignedOK
  <2>10. CASE row.status = "paid"
    <3>1. /\ start + row.approval_step + 1 \in 1 .. Len(history)
          /\ start + row.approval_step + 2 = Len(history) + 1
      BY <1>2, <2>2, <2>4, <2>5, <2>10
    <3>2. new.approval_history[start + row.approval_step + 1].action = "PAY"
      BY <2>3, <2>5, <2>10, <3>1
    <3>3. new.approval_history[start + row.approval_step + 2].action = "HARD_LOCK"
      BY <2>3, <2>10, <3>1
    <3>4. new.status = "hard_locked"
      BY <1>1, <2>10
    <3> QED
      BY <1>1, <1>2, <2>1, <2>4, <2>5, <2>7, <2>8, <3>2, <3>3, <3>4 DEF SignedOK
  <2> QED
    BY <2>9, <2>10
<1> QED
  BY <1>1, <1>2, <1>3, <1>4, <1>5 DEF RowInv, new

LEMMA PayKeeps ==
    ASSUME NEW row \in Expense, RowInv(row), NEW actor \in User, CanPay(actor, row)
    PROVE  LET new == Paid(row, actor)
           IN  new \in Expense /\ RowInv(new) /\ Untouched(row, new)
               /\ new.approval_step = row.approval_step /\ new.status = "paid"
<1> DEFINE settled == [row EXCEPT !.status = "paid", !.paid_by = actor,
                                  !.current_approver_role = NULL]
<1>1. /\ settled \in Expense /\ Untouched(row, settled) /\ settled.status = "paid"
      /\ settled.approval_step = row.approval_step
      /\ settled.approval_history = row.approval_history
      /\ settled.current_approver_role = NULL
  BY DEF Expense, ExpenseStatus, Untouched
<1>2. Paid(row, actor) = WithEvent(settled, "PAY", actor) /\ row.status = "approved"
  BY DEF Paid, CanPay
<1> HIDE DEF settled
<1> QED
  BY <1>1, <1>2, SettleKeeps

LEMMA LockKeeps ==
    ASSUME NEW row \in Expense, RowInv(row), NEW actor \in User, CanLock(actor, row)
    PROVE  LET new == Locked(row, actor)
           IN  new \in Expense /\ RowInv(new) /\ Untouched(row, new)
               /\ new.approval_step = row.approval_step /\ new.status = "hard_locked"
<1> DEFINE settled == [row EXCEPT !.status = "hard_locked"]
<1>1. /\ settled \in Expense /\ Untouched(row, settled) /\ settled.status = "hard_locked"
      /\ settled.approval_step = row.approval_step
      /\ settled.approval_history = row.approval_history
      /\ settled.current_approver_role = row.current_approver_role
  BY DEF Expense, ExpenseStatus, Untouched
<1>2. Locked(row, actor) = WithEvent(settled, "HARD_LOCK", actor) /\ row.status = "paid"
  BY DEF Locked, CanLock
<1>3. row.current_approver_role = NULL
  BY <1>2 DEF RowInv, PositionOK, InFlight
<1> HIDE DEF settled
<1> QED
  BY <1>1, <1>2, <1>3, SettleKeeps

LEMMA RejectKeeps ==
    ASSUME NEW row \in Expense, NEW actor \in User
    PROVE  LET new == Rejected(row, actor)
           IN  /\ new \in Expense /\ RowInv(new)
               /\ new.amount = row.amount /\ new.category = row.category
               /\ new.approval_chain = row.approval_chain
               /\ new.approval_step = row.approval_step
<1> DEFINE rejected == [row EXCEPT !.status = "rejected", !.rejection_reason = TRUE,
                                   !.current_approver_role = NULL]
           new == Rejected(row, actor)
<1>1. /\ rejected \in Expense /\ rejected.status = "rejected" /\ rejected.rejection_reason = TRUE
      /\ rejected.current_approver_role = NULL
      /\ rejected.amount = row.amount /\ rejected.category = row.category
      /\ rejected.approval_chain = row.approval_chain
      /\ rejected.approval_step = row.approval_step
  BY DEF Expense, ExpenseStatus
<1>2. new = WithEvent(rejected, "REJECT", actor)
  BY DEF Rejected
<1> HIDE DEF rejected, new
<1>3. "REJECT" \in Action
  BY DEF Action
<1>4. /\ new \in Expense /\ new.status = "rejected" /\ new.rejection_reason = TRUE
      /\ new.current_approver_role = NULL
      /\ new.amount = row.amount /\ new.category = row.category
      /\ new.approval_chain = row.approval_chain
      /\ new.approval_step = row.approval_step
  BY <1>1, <1>2, <1>3, WithEventFacts DEF Untouched
<1>5. RowInv(new)
  BY <1>4 DEF RowInv, PositionOK, StampOK, InFlight, Settled
<1> QED
  BY <1>4, <1>5 DEF new

---------------------------------------------------------------------------
\* The system: every step keeps the tables well-typed and every row coherent.

\* The inductive invariant.
IInv == TypeOK /\ \A e \in Expenses : Exists(e) => RowInv(expense[e])

AuditAction == {"CREATE", "UPDATE", "DELETE"} \cup Action

\* A commit that writes a coherent row, or none, keeps the invariant.
LEMMA WriteKeeps ==
    ASSUME IInv, NEW e \in Expenses, NEW actor \in User, NEW action \in AuditAction,
           NEW row, row = NULL \/ (row \in Expense /\ RowInv(row)),
           Write(e, actor, action, row)
    PROVE  IInv'
<1>1. /\ expense \in [Expenses -> Expense \cup {NULL}]
      /\ audit \in [Expenses -> Seq(AuditEntry)]
      /\ rules \subseteq RulePool
      /\ project \in [Project -> {"active", "archived", "deleted"}]
  BY DEF IInv, TypeOK
<1>2. /\ expense' = [expense EXCEPT ![e] = row]
      /\ audit' = [audit EXCEPT ![e] = Append(audit[e], [action |-> action, user |-> actor])]
      /\ rules' = rules /\ project' = project
  BY DEF Write
<1>3. Append(audit[e], [action |-> action, user |-> actor]) \in Seq(AuditEntry)
  <2>1. [action |-> action, user |-> actor] \in AuditEntry
    BY DEF AuditAction, Action, AuditEntry
  <2> QED
    BY <1>1, <2>1
<1>4. TypeOK'
  BY <1>1, <1>2, <1>3 DEF TypeOK
<1>5. ASSUME NEW f \in Expenses, Exists(f)'
      PROVE  RowInv(expense'[f])
  <2>1. CASE f = e
    BY <1>1, <1>2, <1>5, <2>1 DEF Exists
  <2>2. CASE f # e
    <3>1. expense'[f] = expense[f]
      BY <1>1, <1>2, <2>2
    <3> QED
      BY <1>5, <3>1 DEF IInv, Exists
  <2> QED
    BY <2>1, <2>2
<1>6. \A f \in Expenses : Exists(f)' => RowInv(expense[f])'
  BY <1>5 DEF RowInv, PositionOK, StampOK, SignedOK, SignedRoles, SubmittedAt, EventsAfterSigning
<1> QED
  BY <1>4, <1>6 DEF IInv

LEMMA HandlerKeeps ==
    ASSUME IInv, NEW e \in Expenses, NEW actor \in User, Handler(e, actor)
    PROVE  IInv'
<1> DEFINE row == expense[e]
<1>1. ASSUME Exists(e)
      PROVE  row \in Expense /\ RowInv(row)
  BY <1>1 DEF IInv, TypeOK, Exists
<1>2. CASE Create(e, actor)
  <2>1. PICK expense_type \in {"regular", "reimbursement"}, p \in Project \cup {NULL},
             amount \in Amounts, category \in Categories :
            Write(e, actor, "CREATE",
                  NewExpense(expense_type, p, amount, category, actor))
    BY <1>2 DEF Create
  <2> DEFINE new == NewExpense(expense_type, p, amount, category, actor)
  <2>2. new \in Expense /\ RowInv(new)
    BY NewKeeps
  <2> HIDE DEF new
  <2> QED
    BY <2>1, <2>2, WriteKeeps DEF AuditAction, new
<1>3. CASE Update(e, actor)
  <2>1. Exists(e) /\ row.status = "draft"
    BY <1>3 DEF Update, CanUpdate
  <2>2. PICK amount \in Amounts, category \in Categories :
            Write(e, actor, "UPDATE", Edited(row, amount, category))
    BY <1>3 DEF Update
  <2>3. Edited(row, amount, category) \in Expense /\ RowInv(Edited(row, amount, category))
    BY <1>1, <2>1, EditKeeps
  <2> QED
    BY <2>2, <2>3, WriteKeeps DEF AuditAction
<1>4. CASE Submit(e, actor)
  <2>1. PICK chain \in SubmissionChains(rules, row.expense_type, row.amount, row.category) :
            Write(e, actor, "SUBMIT", Started(row, actor, chain))
    BY <1>4 DEF Submit
  <2>2. rules \in SUBSET RulePool
    BY DEF IInv, TypeOK
  <2>3. chain \in Seq(Role) /\ Len(chain) > 0 /\ "COST_CONTROL" \in RolesIn(chain)
    BY <2>2, SubmissionChainType
  <2>4. Started(row, actor, chain) \in Expense /\ RowInv(Started(row, actor, chain))
    BY <1>1, <1>4, <2>3, SubmitKeeps DEF Submit
  <2> QED
    BY <2>1, <2>4, WriteKeeps DEF AuditAction, Action
<1>5. CASE Verify(e, actor)
  <2>1. Verified(row, actor) \in Expense /\ RowInv(Verified(row, actor))
    BY <1>1, <1>5, VerifyKeeps DEF Verify
  <2>2. Write(e, actor, VerifyAction(actor), Verified(row, actor))
    BY <1>5 DEF Verify
  <2>3. VerifyAction(actor) \in AuditAction
    BY DEF VerifyAction, AuditAction, Action
  <2> QED
    BY <2>1, <2>2, <2>3, WriteKeeps
<1>6. CASE Approve(e, actor)
  <2>1. Approved(row, actor) \in Expense /\ RowInv(Approved(row, actor))
    BY <1>1, <1>6, ApproveKeeps DEF Approve
  <2>2. Write(e, actor, "APPROVE", Approved(row, actor))
    BY <1>6 DEF Approve
  <2> QED
    BY <2>1, <2>2, WriteKeeps DEF AuditAction, Action
<1>7. CASE Pay(e, actor)
  <2>1. Paid(row, actor) \in Expense /\ RowInv(Paid(row, actor))
    BY <1>1, <1>7, PayKeeps DEF Pay
  <2>2. Write(e, actor, "PAY", Paid(row, actor))
    BY <1>7 DEF Pay
  <2> QED
    BY <2>1, <2>2, WriteKeeps DEF AuditAction, Action
<1>8. CASE Lock(e, actor)
  <2>1. Locked(row, actor) \in Expense /\ RowInv(Locked(row, actor))
    BY <1>1, <1>8, LockKeeps DEF Lock
  <2>2. Write(e, actor, "HARD_LOCK", Locked(row, actor))
    BY <1>8 DEF Lock
  <2> QED
    BY <2>1, <2>2, WriteKeeps DEF AuditAction, Action
<1>9. CASE Reject(e, actor)
  <2>1. Rejected(row, actor) \in Expense /\ RowInv(Rejected(row, actor))
    BY <1>1, <1>9, RejectKeeps DEF Reject
  <2>2. Write(e, actor, "REJECT", Rejected(row, actor))
    BY <1>9 DEF Reject
  <2> QED
    BY <2>1, <2>2, WriteKeeps DEF AuditAction, Action
<1>10. CASE Delete(e, actor)
  <2>1. Write(e, actor, "DELETE", NULL)
    BY <1>10 DEF Delete
  <2>2. "DELETE" \in AuditAction
    BY DEF AuditAction
  <2> DEFINE none == NULL
  <2>3. none = NULL \/ (none \in Expense /\ RowInv(none))
    OBVIOUS
  <2>4. Write(e, actor, "DELETE", none)
    BY <2>1
  <2> HIDE DEF none
  <2> QED
    BY <2>2, <2>3, <2>4, WriteKeeps
<1>11. CASE PostPayroll(e, actor)
  <2>1. PICK amount \in Amounts :
            expense' = [expense EXCEPT ![e] = PayrollExpense(amount, actor)]
    BY <1>11 DEF PostPayroll
  <2> DEFINE new == PayrollExpense(amount, actor)
  <2>2. new \in Expense /\ RowInv(new)
    BY PayrollKeeps
  <2>3. UNCHANGED <<audit, rules, project>>
    BY <1>11 DEF PostPayroll
  <2> HIDE DEF new
  <2>4. expense' = [expense EXCEPT ![e] = new]
    BY <2>1 DEF new
  <2>5. TypeOK'
    BY <2>2, <2>3, <2>4 DEF IInv, TypeOK
  <2>6. \A f \in Expenses : expense'[f] = expense[f] \/ expense'[f] = new
    BY <2>4 DEF IInv, TypeOK
  <2>7. \A f \in Expenses : Exists(f)' => RowInv(expense'[f])
    BY <2>2, <2>6 DEF IInv, Exists
  <2>8. \A f \in Expenses : Exists(f)' => RowInv(expense[f])'
    BY <2>7 DEF RowInv, PositionOK, StampOK, SignedOK, SignedRoles, SubmittedAt, EventsAfterSigning
  <2> QED
    BY <2>5, <2>8 DEF IInv
<1> QED
  BY <1>2, <1>3, <1>4, <1>5, <1>6, <1>7, <1>8, <1>9, <1>10, <1>11 DEF Handler

\* Where the expenses do not change, neither does what the invariant says of them.
LEMMA SameRows ==
    ASSUME IInv, UNCHANGED expense
    PROVE  (\A e \in Expenses : Exists(e) => RowInv(expense[e]))'
<1> SUFFICES ASSUME NEW e \in Expenses, Exists(e)'
             PROVE  RowInv(expense[e])'
  OBVIOUS
<1>1. RowInv(expense[e])
  BY DEF IInv, Exists
<1>2. /\ PositionOK(expense[e])' /\ StampOK(expense[e])'
  BY <1>1 DEF RowInv, PositionOK, StampOK, SignedRoles
<1>3. SignedOK(expense[e]) => SignedOK(expense[e])'
  BY DEF SignedOK, SubmittedAt, EventsAfterSigning
<1> QED
  BY <1>1, <1>2, <1>3 DEF RowInv

\* The rule table and the projects change under the expenses without disturbing them.
LEMMA AdministrationKeeps ==
    ASSUME IInv, Administration
    PROVE  IInv'
<1>1. CASE \E rule \in RulePool : ToggleRule(rule)
  <2>1. PICK rule \in RulePool : ToggleRule(rule)
    BY <1>1
  <2>2. rules' \subseteq RulePool /\ UNCHANGED <<expense, audit, project>>
    BY <2>1 DEF ToggleRule, IInv, TypeOK
  <2> QED
    BY <2>2, SameRows DEF IInv, TypeOK
<1>2. CASE \E p \in Project : ArchiveProject(p)
  <2>1. PICK p \in Project : ArchiveProject(p)
    BY <1>2
  <2>2. /\ project' \in [Project -> {"active", "archived", "deleted"}]
        /\ UNCHANGED <<expense, audit, rules>>
    BY <2>1 DEF ArchiveProject, IInv, TypeOK
  <2> QED
    BY <2>2, SameRows DEF IInv, TypeOK
<1>3. CASE \E p \in Project : DeleteProject(p)
  <2>1. PICK p \in Project : DeleteProject(p)
    BY <1>3
  <2>2. /\ project' \in [Project -> {"active", "archived", "deleted"}]
        /\ UNCHANGED <<audit, rules>>
    BY <2>1 DEF DeleteProject, IInv, TypeOK
  <2>3. \A e \in Expenses : expense'[e] = NULL \/ expense'[e] = expense[e]
    BY <2>1 DEF DeleteProject
  <2>4. expense' \in [Expenses -> Expense \cup {NULL}]
    BY <2>1 DEF DeleteProject, IInv, TypeOK
  <2>5. TypeOK'
    BY <2>2, <2>4 DEF IInv, TypeOK
  <2>6. \A e \in Expenses : Exists(e)' => RowInv(expense'[e])
    BY <2>3 DEF IInv, Exists
  <2>7. \A e \in Expenses : Exists(e)' => RowInv(expense[e])'
    BY <2>6 DEF RowInv, PositionOK, StampOK, SignedOK, SignedRoles, SubmittedAt,
                EventsAfterSigning
  <2> QED
    BY <2>5, <2>7 DEF IInv
<1> QED
  BY <1>1, <1>2, <1>3 DEF Administration

\* IInv holds at first and every step keeps it.
THEOREM Inductive == Spec => []IInv
<1>1. Init => IInv
  BY DEF Init, IInv, TypeOK, Exists
<1>2. IInv /\ [Next]_vars => IInv'
  <2> SUFFICES ASSUME IInv, [Next]_vars
               PROVE  IInv'
    OBVIOUS
  <2>1. CASE Next
    BY <2>1, HandlerKeeps, AdministrationKeeps DEF Next
  <2>2. CASE UNCHANGED vars
    BY <2>2, SameRows DEF vars, IInv, TypeOK
  <2> QED
    BY <2>1, <2>2
<1> QED
  BY <1>1, <1>2, PTL DEF Spec

\* Whatever the rules, users and amounts, rows, audit entries, rules and projects are
\* what the tables can hold.
THEOREM TypeCorrect == Spec => []TypeOK
<1>1. IInv => TypeOK
  BY DEF IInv
<1> QED
  BY <1>1, Inductive, PTL

\* Status, step, expected approver and rejection reason of every expense agree with
\* its chain, for chains of any length.
THEOREM ChainPositionHolds == Spec => []ChainPosition
<1>1. IInv => ChainPosition
  BY DEF IInv, ChainPosition, RowInv
<1> QED
  BY <1>1, Inductive, PTL

\* No expense carries the VERIFIED stamp, an approval or a payment without the
\* signature of COST_CONTROL, whatever the rule table asks for.
THEOREM CostControlStampHolds == Spec => []CostControlStamp
<1>1. IInv => CostControlStamp
  BY DEF IInv, CostControlStamp, RowInv
<1> QED
  BY <1>1, Inductive, PTL

\* The columns of every row agree with each other, for every set of users, rules,
\* amounts and expenses.
THEOREM RowsCoherentHolds == Spec => []RowsCoherent
<1>1. TypeOK /\ ChainPosition /\ CostControlStamp => RowsCoherent
  BY DEF RowsCoherent
<1> QED
  BY <1>1, TypeCorrect, ChainPositionHolds, CostControlStampHolds, PTL

\* The history of an expense in flight, approved, paid or locked holds a signature of
\* an entitled user for every role of its chain up to its step, in order.
THEOREM SignedInOrderHolds == Spec => []SignedInOrder
<1>1. IInv => SignedInOrder
  BY DEF IInv, SignedInOrder, RowInv, TypeOK, Exists, Expense, ExpenseStatus, InFlight, Settled
<1> QED
  BY <1>1, Inductive, PTL

\* With a user for every role a chain may name, some user can sign for every expense
\* in flight without the SUPER_ADMIN override: no configuration of rules and no
\* sequence of requests, one at a time, strands one.
THEOREM NeverStuckHolds ==
    ASSUME \A role \in Role : \E user \in User : role \in EffectiveRoles(RoleOf[user])
    PROVE  Spec => []NeverStuck
<1>1. ASSUME IInv PROVE NeverStuck
  <2> SUFFICES ASSUME NEW e \in Expenses, Exists(e), expense[e].status \in InFlight
               PROVE  \E actor \in User :
                         /\ CanApprove(actor, expense[e])
                         /\ RoleOf[actor] = "SUPER_ADMIN" =>
                                expense[e].current_approver_role = "SUPER_ADMIN"
    BY DEF NeverStuck
  <2> DEFINE row == expense[e]
  <2>1. row \in Expense /\ PositionOK(row)
    BY <1>1 DEF IInv, TypeOK, Exists, RowInv
  <2>2. /\ row.approval_chain \in Seq(Role) /\ row.approval_step \in Nat
        /\ row.approval_step < Len(row.approval_chain)
        /\ row.current_approver_role = row.approval_chain[row.approval_step + 1]
    BY <2>1 DEF PositionOK, Expense
  <2>3. row.current_approver_role \in Role
    BY <2>2
  <2> QED
    BY <2>3 DEF CanApprove, RoleCanAct, EffectiveRoles
<1> QED
  BY <1>1, Inductive, PTL

---------------------------------------------------------------------------
\* Action properties.

\* What a step can make of an expense that is submitted and not rejected.
Fate(e) ==
    \/ expense'[e] = expense[e]
    \/ \E actor \in User :
           \/ CanVerify(actor, expense[e]) /\ expense'[e] = Verified(expense[e], actor)
           \/ CanApprove(actor, expense[e]) /\ expense'[e] = Approved(expense[e], actor)
           \/ CanPay(actor, expense[e]) /\ expense'[e] = Paid(expense[e], actor)
           \/ CanLock(actor, expense[e]) /\ expense'[e] = Locked(expense[e], actor)
           \/ CanReject(actor, expense[e]) /\ expense'[e] = Rejected(expense[e], actor)
    \/ \E p \in Project :
           project[p] = "archived" /\ expense[e].project = p /\ expense'[e] = NULL

\* A commit writes one row.
LEMMA WriteOneRow ==
    ASSUME IInv, NEW e \in Expenses, NEW actor, NEW action, NEW row,
           Write(e, actor, action, row)
    PROVE  expense'[e] = row /\ \A f \in Expenses \ {e} : expense'[f] = expense[f]
  BY DEF Write, IInv, TypeOK

LEMMA FateOfSubmitted ==
    ASSUME IInv, [Next]_vars, NEW f \in Expenses, Exists(f),
           expense[f].status \notin {"draft", "rejected"}
    PROVE  Fate(f)
<1>1. CASE UNCHANGED vars
  BY <1>1 DEF vars, Fate
<1>2. CASE Administration
  BY <1>2 DEF Administration, ToggleRule, ArchiveProject, DeleteProject, Fate
<1>3. ASSUME NEW e \in Expenses, NEW actor \in User, Handler(e, actor)
      PROVE  Fate(f)
  <2>1. CASE Create(e, actor)
    <3>1. ~ Exists(e)
      BY <2>1 DEF Create, Fresh, Exists
    <3> QED
      BY <2>1, <3>1, WriteOneRow DEF Create, Fate
  <2>2. CASE Update(e, actor)
    BY <2>2, WriteOneRow DEF Update, CanUpdate, Fate
  <2>3. CASE Submit(e, actor)
    BY <2>3, WriteOneRow DEF Submit, CanSubmit, Fate
  <2>4. CASE Verify(e, actor)
    BY <2>4, WriteOneRow DEF Verify, Fate
  <2>5. CASE Approve(e, actor)
    BY <2>5, WriteOneRow DEF Approve, Fate
  <2>6. CASE Pay(e, actor)
    BY <2>6, WriteOneRow DEF Pay, Fate
  <2>7. CASE Lock(e, actor)
    BY <2>7, WriteOneRow DEF Lock, Fate
  <2>8. CASE Reject(e, actor)
    BY <2>8, WriteOneRow DEF Reject, Fate
  <2>9. CASE Delete(e, actor)
    BY <2>9, WriteOneRow DEF Delete, CanDelete, Fate
  <2>10. CASE PostPayroll(e, actor)
    <3>1. ~ Exists(e) /\ \E row : expense' = [expense EXCEPT ![e] = row]
      BY <2>10 DEF PostPayroll, Fresh, Exists
    <3> QED
      BY <3>1 DEF IInv, TypeOK, Fate
  <2> QED
    BY <1>3, <2>1, <2>2, <2>3, <2>4, <2>5, <2>6, <2>7, <2>8, <2>9, <2>10 DEF Handler
<1> QED
  BY <1>1, <1>2, <1>3 DEF Next

\* What is paid stays paid: a settled expense is locked, or goes with its archived
\* project, and nothing else ever happens to it.
THEOREM SettledStays == Spec => SettledStaysSettled
<1> DEFINE Stays(e) ==
        \/ expense'[e] = expense[e]
        \/ expense[e].status = "paid" /\ \E actor \in User :
               expense'[e] = Locked(expense[e], actor)
        \/ \E p \in Project : project[p] = "archived" /\ expense[e].project = p
                              /\ expense'[e] = NULL
<1>1. ASSUME IInv, [Next]_vars, NEW e \in Expenses, Exists(e), expense[e].status \in Settled
      PROVE  Stays(e)
  <2>1. Fate(e)
    BY <1>1, FateOfSubmitted DEF Settled
  <2> QED
    BY <1>1, <2>1 DEF Fate, Settled, InFlight, CanVerify, CanApprove, CanPay, CanLock, CanReject
<1>2. IInv /\ [Next]_vars =>
          [\A e \in Expenses : Exists(e) /\ expense[e].status \in Settled => Stays(e)]_vars
  BY <1>1
<1> QED
  BY <1>2, Inductive, PTL DEF Spec, SettledStaysSettled

\* From its submission until it is rejected or removed, an expense keeps its amount,
\* its category and its chain, and its step counts up by one at most.
THEOREM Captured == Spec => CapturedAtSubmission
<1> DEFINE Keeps(row, next) ==
        /\ next.amount = row.amount /\ next.category = row.category
        /\ next.approval_chain = row.approval_chain
        /\ next.approval_step \in row.approval_step .. row.approval_step + 1
<1>1. ASSUME IInv, [Next]_vars, NEW e \in Expenses, Exists(e), Exists(e)',
             expense[e].status \notin {"draft", "rejected"}
      PROVE  Keeps(expense[e], expense'[e])
  <2> DEFINE row == expense[e]
             next == expense'[e]
  <2>1. row \in Expense /\ RowInv(row) /\ row.approval_step \in Nat
    BY <1>1 DEF IInv, TypeOK, Exists, Expense
  <2>2. Fate(e) /\ next # NULL
    BY <1>1, FateOfSubmitted DEF Exists
  <2>3. CASE next = row
    BY <2>1, <2>3
  <2>4. ASSUME NEW actor \in User, CanVerify(actor, row), next = Verified(row, actor)
        PROVE  Keeps(row, next)
    BY <2>1, <2>4, VerifyKeeps DEF Untouched
  <2>5. ASSUME NEW actor \in User, CanApprove(actor, row), next = Approved(row, actor)
        PROVE  Keeps(row, next)
    BY <2>1, <2>5, ApproveKeeps DEF Untouched
  <2>6. ASSUME NEW actor \in User, CanPay(actor, row), next = Paid(row, actor)
        PROVE  Keeps(row, next)
    BY <2>1, <2>6, PayKeeps DEF Untouched
  <2>7. ASSUME NEW actor \in User, CanLock(actor, row), next = Locked(row, actor)
        PROVE  Keeps(row, next)
    BY <2>1, <2>7, LockKeeps DEF Untouched
  <2>8. ASSUME NEW actor \in User, next = Rejected(row, actor)
        PROVE  Keeps(row, next)
    BY <2>1, <2>8, RejectKeeps
  <2> QED
    BY <2>2, <2>3, <2>4, <2>5, <2>6, <2>7, <2>8 DEF Fate
<1>2. IInv /\ [Next]_vars =>
          [\A e \in Expenses :
              Exists(e) /\ Exists(e)' /\ expense[e].status \notin {"draft", "rejected"} =>
                  LET row == expense[e]
                      next == expense'[e]
                  IN  /\ next.amount = row.amount /\ next.category = row.category
                      /\ next.approval_chain = row.approval_chain
                      /\ next.approval_step \in row.approval_step .. row.approval_step + 1]_vars
  BY <1>1
<1> QED
  BY <1>2, Inductive, PTL DEF Spec, CapturedAtSubmission

---------------------------------------------------------------------------
\* Row, history, stamps and audit trail.

LEMMA TrailEmpty ==
    Tells(<<>>, <<>>) /\ \A action : LastToDo(<<>>, action) = NULL
<1>1. WorkflowIn(<<>>) = {}
  BY DEF WorkflowIn
<1> QED
  BY <1>1, FS_EmptySet DEF Tells, LastToDo

\* An entry that is no workflow event.
LEMMA TrailAside ==
    ASSUME NEW history, NEW trail \in Seq(AuditEntry), Tells(history, trail),
           NEW entry \in AuditEntry, entry.action \in {"CREATE", "UPDATE", "DELETE"}
    PROVE  Tells(history, Append(trail, entry))
<1> DEFINE longer == Append(trail, entry)
<1>1. /\ Len(longer) = Len(trail) + 1
      /\ Len(trail) \in Nat
      /\ longer[Len(trail) + 1] = entry
      /\ \A i \in 1 .. Len(trail) : longer[i] = trail[i]
  OBVIOUS
<1> HIDE DEF longer
<1>2. WorkflowIn(longer) = WorkflowIn(trail)
  BY <1>1 DEF WorkflowIn
<1>3. \A i \in WorkflowIn(trail) : longer[i] = trail[i]
  BY <1>1 DEF WorkflowIn
<1> HIDE DEF WorkflowIn
<1>4. Tells(history, longer)
  BY <1>2, <1>3 DEF Tells
<1> QED
  BY <1>4 DEF longer

\* An event and its audit record.
LEMMA TrailLonger ==
    ASSUME NEW history \in Seq(HistoryEvent), NEW trail \in Seq(AuditEntry),
           Tells(history, trail),
           NEW event \in HistoryEvent, NEW entry \in AuditEntry,
           entry.action \notin {"CREATE", "UPDATE", "DELETE"},
           event.action = entry.action, event.user = entry.user
    PROVE  Tells(Append(history, event), Append(trail, entry))
<1> DEFINE longer == Append(trail, entry)
           told == Append(history, event)
           n == Len(trail)
           at == WorkflowIn(trail)
           upTo(i) == {j \in at : j <= i}
<1>1. /\ Len(longer) = n + 1
      /\ n \in Nat
      /\ longer[n + 1] = entry
      /\ \A i \in 1 .. n : longer[i] = trail[i]
  OBVIOUS
<1>2. /\ Len(told) = Len(history) + 1
      /\ Len(history) \in Nat
      /\ told[Len(history) + 1] = event
      /\ \A i \in 1 .. Len(history) : told[i] = history[i]
  OBVIOUS
<1> HIDE DEF longer, told, n
<1>3. /\ WorkflowIn(longer) = at \cup {n + 1}
      /\ at \subseteq 1 .. n
      /\ n + 1 \notin at
      /\ \A i \in at : longer[i] = trail[i]
  BY <1>1 DEF WorkflowIn, n
<1>4. IsFiniteSet(at)
  BY <1>1, <1>3, FS_Interval, FS_Subset
<1> HIDE DEF at
<1>5. Cardinality(at) = Len(history) /\ Cardinality(at \cup {n + 1}) = Len(history) + 1
  BY <1>3, <1>4, FS_AddElement DEF Tells, at
<1>6. Len(told) = Cardinality(WorkflowIn(longer))
  BY <1>2, <1>3, <1>5
<1>7. ASSUME NEW i \in WorkflowIn(longer)
      PROVE  LET shown == told[Cardinality({j \in WorkflowIn(longer) : j <= i})]
             IN  shown.action = longer[i].action /\ shown.user = longer[i].user
  <2>1. CASE i = n + 1
    <3>1. {j \in WorkflowIn(longer) : j <= i} = at \cup {n + 1}
      <4>1. n \in Nat /\ at \subseteq 1 .. n
        BY <1>1, <1>3
      <4>2. \A j \in at : j \in Nat /\ j <= n
        <5>1. \A j \in 1 .. n : j \in Nat /\ j <= n
          BY <4>1
        <5> QED
          BY <4>1, <5>1
      <4>3. \A j \in at \cup {n + 1} : j <= i
        BY <2>1, <4>1, <4>2
      <4> QED
        BY <1>3, <4>3
    <3> QED
      BY <1>1, <1>2, <1>5, <2>1, <3>1
  <2>2. CASE i \in at
    <3>1. {j \in WorkflowIn(longer) : j <= i} = upTo(i)
      BY <1>1, <1>3, <2>2
    <3>2. /\ IsFiniteSet(upTo(i))
          /\ Cardinality(upTo(i)) \in Nat
          /\ Cardinality(upTo(i)) <= Cardinality(at)
      BY <1>4, FS_Subset, FS_CardinalityType
    <3>3. Cardinality(upTo(i)) # 0
      <4>1. i \in upTo(i)
        BY <1>1, <1>3, <2>2
      <4> QED
        BY <3>2, <4>1, FS_EmptySet
    <3>4. Cardinality(upTo(i)) \in 1 .. Len(history)
      BY <1>2, <1>5, <3>2, <3>3
    <3>5. LET shown == history[Cardinality(upTo(i))]
          IN  shown.action = trail[i].action /\ shown.user = trail[i].user
      BY <2>2 DEF Tells, at
    <3> HIDE DEF upTo
    <3> QED
      BY <1>2, <1>3, <2>2, <3>1, <3>4, <3>5
  <2> QED
    BY <1>3, <2>1, <2>2
<1>8. Tells(told, longer)
  BY <1>6, <1>7 DEF Tells
<1> QED
  BY <1>8 DEF told, longer

\* Positions have a last one among them.
LEMMA GreatestNumber ==
    ASSUME NEW n \in Nat, NEW S \in SUBSET (1 .. n), S # {}
    PROVE  \E i \in S : \A j \in S : j <= i
<1> DEFINE less == {ss \in Nat \X Nat : ss[1] < ss[2]}
           T == {n - i : i \in S}
<1>1. IsWellFoundedOn(less, Nat)
  BY NatLessThanWellFounded DEF OpToRel
<1>2. T \in SUBSET Nat /\ T # {}
  <2>1. \A i \in S : n - i \in Nat
    OBVIOUS
  <2> QED
    BY <2>1
<1>3. PICK m \in T : \A k \in T : <<k, m>> \notin less
  BY <1>1, <1>2, WFMin
<1>4. PICK i \in S : m = n - i
  BY <1>3
<1>5. ASSUME NEW j \in S
      PROVE  j <= i
  <2>1. n - j \in T /\ n - j \in Nat /\ m \in Nat
    BY <1>2, <1>3
  <2>2. ~ (n - j < m)
    BY <1>3, <2>1
  <2> QED
    BY <1>4, <2>2
<1> QED
  BY <1>5

\* Who did a thing last, after one more event.
LEMMA LastOfLonger ==
    ASSUME NEW history \in Seq(HistoryEvent), NEW event \in HistoryEvent, NEW action
    PROVE  LastToDo(Append(history, event), action) =
               IF event.action = action THEN event.user ELSE LastToDo(history, action)
<1> DEFINE told == Append(history, event)
           n == Len(history)
           at(h) == {i \in 1 .. Len(h) : h[i].action = action}
           Top(S, m) == m \in S /\ \A j \in S : j <= m
<1>1. /\ Len(told) = n + 1
      /\ n \in Nat
      /\ told[n + 1] = event
      /\ \A i \in 1 .. n : told[i] = history[i]
  OBVIOUS
<1> HIDE DEF told
<1>2. CASE event.action = action
  <2>1. n + 1 \in at(told) /\ \A j \in at(told) : j <= n + 1 /\ j \in Nat
    BY <1>1, <1>2
  <2> HIDE DEF at
  <2>2. (CHOOSE i \in at(told) : \A j \in at(told) : j <= i) = n + 1
    <3> DEFINE top == CHOOSE i \in at(told) : \A j \in at(told) : j <= i
    <3>1. top \in at(told) /\ \A j \in at(told) : j <= top
      BY <2>1
    <3> HIDE DEF top
    <3>2. top = n + 1
      BY <1>1, <2>1, <3>1
    <3> QED
      BY <3>2 DEF top
  <2>3. LastToDo(told, action) = told[n + 1].user
    BY <2>1, <2>2 DEF LastToDo, at
  <2> QED
    BY <1>1, <1>2, <2>3 DEF told
<1>3. CASE event.action # action
  <2>1. at(told) = at(history)
    BY <1>1, <1>3
  <2>2. \A i \in at(history) : told[i] = history[i]
    BY <1>1
  <2>3. CASE at(history) = {}
    BY <1>3, <2>1, <2>3 DEF LastToDo, told
  <2>4. CASE at(history) # {}
    <3> DEFINE top == CHOOSE i \in at(history) : \A j \in at(history) : j <= i
    <3>1. top \in at(history)
      <4>1. at(history) \in SUBSET (1 .. n)
        BY <1>1
      <4> HIDE DEF at
      <4>2. \E i \in at(history) : \A j \in at(history) : j <= i
        BY <1>1, <2>4, <4>1, GreatestNumber
      <4> QED
        BY <4>2
    <3>2. LastToDo(told, action) = told[top].user
      BY <2>1, <2>4 DEF LastToDo
    <3>3. LastToDo(history, action) = history[top].user
      BY <2>4 DEF LastToDo
    <3> HIDE DEF top, at
    <3> QED
      BY <1>3, <2>2, <3>1, <3>2, <3>3 DEF told
  <2> QED
    BY <2>3, <2>4
<1> QED
  BY <1>2, <1>3

\* The columns that hold stamps.
SameStamps(row, new) ==
    /\ new.receipt_reviewed_by = row.receipt_reviewed_by
    /\ new.verified_by = row.verified_by
    /\ new.approved_by = row.approved_by
    /\ new.paid_by = row.paid_by
    /\ new.payroll = row.payroll

\* A row after one more event, whose stamp it bears.
LEMMA StampsLater ==
    ASSUME NEW row \in Expense, StampsTrue(row), NEW event \in HistoryEvent, NEW new,
           new.approval_history = Append(row.approval_history, event),
           new.receipt_reviewed_by = IF event.action = "RECEIPT_REVIEW" THEN event.user
                                     ELSE row.receipt_reviewed_by,
           new.verified_by = IF event.action = "VERIFY" THEN event.user ELSE row.verified_by,
           new.approved_by = IF event.action = "APPROVE" THEN event.user ELSE row.approved_by,
           new.paid_by = IF event.action = "PAY" THEN event.user ELSE row.paid_by,
           new.payroll = row.payroll
    PROVE  StampsTrue(new)
<1>1. row.approval_history \in Seq(HistoryEvent)
  BY DEF Expense
<1>2. \A action : LastToDo(new.approval_history, action) =
                     IF event.action = action THEN event.user
                     ELSE LastToDo(row.approval_history, action)
  BY <1>1, LastOfLonger
<1> QED
  BY <1>2 DEF StampsTrue

\* What an operation makes of a row: one event more, and its stamp.
Tale(row, new, action, actor) ==
    /\ \E role \in Role \cup {NULL} :
           new.approval_history = Append(row.approval_history,
               [action |-> action, role |-> role, user |-> actor])
    /\ new.receipt_reviewed_by = IF action = "RECEIPT_REVIEW" THEN actor
                                 ELSE row.receipt_reviewed_by
    /\ new.verified_by = IF action = "VERIFY" THEN actor ELSE row.verified_by
    /\ new.approved_by = IF action = "APPROVE" THEN actor ELSE row.approved_by
    /\ new.paid_by = IF action = "PAY" THEN actor ELSE row.paid_by
    /\ new.payroll = row.payroll

LEMMA EventTale ==
    ASSUME NEW row \in Expense, NEW action, NEW actor
    PROVE  LET new == WithEvent(row, action, actor)
           IN  /\ SameStamps(row, new)
               /\ \E role \in Role \cup {NULL} :
                      new.approval_history = Append(row.approval_history,
                          [action |-> action, role |-> role, user |-> actor])
BY DEF WithEvent, SameStamps, Expense

LEMMA AdvancedTale ==
    ASSUME NEW row,
           {"receipt_reviewed_by", "verified_by", "approved_by", "paid_by", "payroll",
            "approval_history"} \subseteq DOMAIN row
    PROVE  LET new == Advanced(row)
           IN  SameStamps(row, new) /\ new.approval_history = row.approval_history
BY DEF Advanced, SameStamps

\* The stamps a row bears before its event is noted.
Stamped(row, stamped, action, actor) ==
    /\ stamped.receipt_reviewed_by = IF action = "RECEIPT_REVIEW" THEN actor
                                     ELSE row.receipt_reviewed_by
    /\ stamped.verified_by = IF action = "VERIFY" THEN actor ELSE row.verified_by
    /\ stamped.approved_by = IF action = "APPROVE" THEN actor ELSE row.approved_by
    /\ stamped.paid_by = IF action = "PAY" THEN actor ELSE row.paid_by
    /\ stamped.payroll = row.payroll

LEMMA TaleOfStamps ==
    ASSUME NEW row, NEW stamped, NEW new, NEW action, NEW actor,
           Stamped(row, stamped, action, actor), SameStamps(stamped, new),
           \E role \in Role \cup {NULL} :
               new.approval_history = Append(row.approval_history,
                   [action |-> action, role |-> role, user |-> actor])
    PROVE  Tale(row, new, action, actor)
BY DEF Tale, Stamped, SameStamps


LEMMA ToldByTale ==
    ASSUME NEW row \in Expense, StampsTrue(row), NEW trail \in Seq(AuditEntry),
           Tells(row.approval_history, trail), NEW action \in Action, NEW actor \in User,
           NEW new, Tale(row, new, action, actor)
    PROVE  /\ StampsTrue(new)
           /\ Tells(new.approval_history,
                    Append(trail, [action |-> action, user |-> actor]))
<1>1. PICK role \in Role \cup {NULL} :
          new.approval_history = Append(row.approval_history,
              [action |-> action, role |-> role, user |-> actor])
  BY DEF Tale
<1> DEFINE event == [action |-> action, role |-> role, user |-> actor]
           entry == [action |-> action, user |-> actor]
<1>2. /\ event \in HistoryEvent
      /\ event.action = action
      /\ event.user = actor
      /\ entry \in AuditEntry
      /\ entry.action = action
      /\ entry.user = actor
      /\ action \notin {"CREATE", "UPDATE", "DELETE"}
      /\ row.approval_history \in Seq(HistoryEvent)
  BY DEF HistoryEvent, AuditEntry, Action, Expense
<1>3. new.approval_history = Append(row.approval_history, event)
  BY <1>1
<1> HIDE DEF event, entry
<1>4. StampsTrue(new)
  BY <1>2, <1>3, StampsLater DEF Tale
<1>5. Tells(new.approval_history, Append(trail, entry))
  BY <1>2, <1>3, TrailLonger
<1> QED
  BY <1>4, <1>5 DEF entry

\* What every operation tells.
LEMMA Tales ==
    ASSUME NEW row \in Expense, NEW actor \in User
    PROVE  /\ Tale(row, Verified(row, actor), VerifyAction(actor), actor)
           /\ Tale(row, Approved(row, actor), "APPROVE", actor)
           /\ Tale(row, Paid(row, actor), "PAY", actor)
           /\ Tale(row, Locked(row, actor), "HARD_LOCK", actor)
           /\ Tale(row, Rejected(row, actor), "REJECT", actor)
           /\ \A chain \in Seq(Role) : Tale(row, Started(row, actor, chain), "SUBMIT", actor)
<1>0. ASSUME NEW stamped \in Expense, NEW action,
             stamped.approval_history = row.approval_history,
             Stamped(row, stamped, action, actor)
      PROVE  /\ Tale(row, WithEvent(stamped, action, actor), action, actor)
             /\ Tale(row, Advanced(WithEvent(stamped, action, actor)), action, actor)
  <2> DEFINE noted == WithEvent(stamped, action, actor)
  <2>1. /\ SameStamps(stamped, noted)
        /\ \E role \in Role \cup {NULL} :
               noted.approval_history = Append(row.approval_history,
                   [action |-> action, role |-> role, user |-> actor])
    BY <1>0, EventTale
  <2>2. {"receipt_reviewed_by", "verified_by", "approved_by", "paid_by", "payroll",
         "approval_history"} \subseteq DOMAIN noted
    BY DEF WithEvent, Expense
  <2> HIDE DEF noted
  <2> DEFINE after == Advanced(noted)
  <2>3. SameStamps(noted, after) /\ after.approval_history = noted.approval_history
    BY <2>2, AdvancedTale
  <2> HIDE DEF after
  <2>4. SameStamps(stamped, after)
    BY <2>1, <2>3 DEF SameStamps
  <2>5. Tale(row, noted, action, actor)
    BY <1>0, <2>1, TaleOfStamps
  <2>6. Tale(row, after, action, actor)
    BY <1>0, <2>1, <2>3, <2>4, TaleOfStamps
  <2> QED
    BY <2>5, <2>6 DEF noted, after
<1>1. Tale(row, Verified(row, actor), VerifyAction(actor), actor)
  <2> DEFINE stamped == IF RoleOf[actor] \in {"GA", "HR"}
                        THEN [row EXCEPT !.receipt_reviewed_by = actor]
                        ELSE [row EXCEPT !.verified_by = actor]
  <2>1. /\ stamped \in Expense
        /\ stamped.approval_history = row.approval_history
        /\ stamped.receipt_reviewed_by = IF VerifyAction(actor) = "RECEIPT_REVIEW" THEN actor
                                         ELSE row.receipt_reviewed_by
        /\ stamped.verified_by = IF VerifyAction(actor) = "VERIFY" THEN actor
                                 ELSE row.verified_by
        /\ stamped.approved_by = row.approved_by
        /\ stamped.paid_by = row.paid_by
        /\ stamped.payroll = row.payroll
        /\ VerifyAction(actor) \notin {"APPROVE", "PAY"}
    <3>1. CASE RoleOf[actor] \in {"GA", "HR"}
      BY <3>1 DEF Expense, VerifyAction
    <3>2. CASE RoleOf[actor] \notin {"GA", "HR"}
      BY <3>2 DEF Expense, VerifyAction
    <3> QED
      BY <3>1, <3>2
  <2>2. Verified(row, actor) = Advanced(WithEvent(stamped, VerifyAction(actor), actor))
    BY DEF Verified
  <2> HIDE DEF stamped
  <2>3. Stamped(row, stamped, VerifyAction(actor), actor)
    BY <2>1 DEF Stamped
  <2> QED
    BY <1>0, <2>1, <2>2, <2>3
<1>2. Tale(row, Approved(row, actor), "APPROVE", actor)
  <2> DEFINE stamped == [row EXCEPT !.approved_by = actor]
  <2>1. /\ stamped \in Expense
        /\ stamped.approval_history = row.approval_history
        /\ stamped.approved_by = actor
        /\ stamped.receipt_reviewed_by = row.receipt_reviewed_by
        /\ stamped.verified_by = row.verified_by
        /\ stamped.paid_by = row.paid_by
        /\ stamped.payroll = row.payroll
    BY DEF Expense
  <2>2. Approved(row, actor) = Advanced(WithEvent(stamped, "APPROVE", actor))
    BY DEF Approved
  <2> HIDE DEF stamped
  <2>3. Stamped(row, stamped, "APPROVE", actor)
    BY <2>1 DEF Stamped
  <2> QED
    BY <1>0, <2>1, <2>2, <2>3
<1>3. Tale(row, Paid(row, actor), "PAY", actor)
  <2> DEFINE stamped == [row EXCEPT !.status = "paid", !.paid_by = actor,
                                    !.current_approver_role = NULL]
  <2>1. /\ stamped \in Expense
        /\ stamped.approval_history = row.approval_history
        /\ stamped.paid_by = actor
        /\ stamped.receipt_reviewed_by = row.receipt_reviewed_by
        /\ stamped.verified_by = row.verified_by
        /\ stamped.approved_by = row.approved_by
        /\ stamped.payroll = row.payroll
    BY DEF Expense, ExpenseStatus
  <2>2. Paid(row, actor) = WithEvent(stamped, "PAY", actor)
    BY DEF Paid
  <2> HIDE DEF stamped
  <2>3. Stamped(row, stamped, "PAY", actor)
    BY <2>1 DEF Stamped
  <2> QED
    BY <1>0, <2>1, <2>2, <2>3
<1>4. Tale(row, Locked(row, actor), "HARD_LOCK", actor)
  <2> DEFINE stamped == [row EXCEPT !.status = "hard_locked"]
  <2>1. /\ stamped \in Expense
        /\ stamped.approval_history = row.approval_history
        /\ SameStamps(row, stamped)
    BY DEF Expense, ExpenseStatus, SameStamps
  <2>2. Locked(row, actor) = WithEvent(stamped, "HARD_LOCK", actor)
    BY DEF Locked
  <2> HIDE DEF stamped
  <2>3. Stamped(row, stamped, "HARD_LOCK", actor)
    BY <2>1 DEF Stamped, SameStamps
  <2> QED
    BY <1>0, <2>1, <2>2, <2>3
<1>5. Tale(row, Rejected(row, actor), "REJECT", actor)
  <2> DEFINE stamped == [row EXCEPT !.status = "rejected", !.rejection_reason = TRUE,
                                    !.current_approver_role = NULL]
  <2>1. /\ stamped \in Expense
        /\ stamped.approval_history = row.approval_history
        /\ SameStamps(row, stamped)
    BY DEF Expense, ExpenseStatus, SameStamps
  <2>2. Rejected(row, actor) = WithEvent(stamped, "REJECT", actor)
    BY DEF Rejected
  <2> HIDE DEF stamped
  <2>3. Stamped(row, stamped, "REJECT", actor)
    BY <2>1 DEF Stamped, SameStamps
  <2> QED
    BY <1>0, <2>1, <2>2, <2>3
<1>6. ASSUME NEW chain \in Seq(Role)
      PROVE  Tale(row, Started(row, actor, chain), "SUBMIT", actor)
  <2> DEFINE first == IF chain = <<>> THEN NULL ELSE chain[1]
             stamped == [row EXCEPT !.status = "submitted", !.submitted_by = actor,
                                    !.approval_chain = chain, !.approval_step = 0,
                                    !.current_approver_role = first,
                                    !.rejection_reason = FALSE]
  <2>0. first \in Role \cup {NULL}
    OBVIOUS
  <2> HIDE DEF first
  <2>1. /\ stamped \in Expense
        /\ stamped.approval_history = row.approval_history
        /\ SameStamps(row, stamped)
    <3>1. stamped \in Expense
      BY <2>0 DEF Expense, ExpenseStatus
    <3>2. stamped.approval_history = row.approval_history
      BY DEF Expense
    <3>3. SameStamps(row, stamped)
      BY DEF Expense, SameStamps
    <3> QED
      BY <3>1, <3>2, <3>3
  <2>2. Started(row, actor, chain) = WithEvent(stamped, "SUBMIT", actor)
    BY DEF Started, first
  <2> HIDE DEF stamped
  <2>3. Stamped(row, stamped, "SUBMIT", actor)
    BY <2>1 DEF Stamped, SameStamps
  <2> QED
    BY <1>0, <2>1, <2>2, <2>3
<1> QED
  BY <1>1, <1>2, <1>3, <1>4, <1>5, <1>6

\* The story of an expense.
Story(row, trail) == StampsTrue(row) /\ Tells(row.approval_history, trail)

Stories == \A e \in Expenses : Exists(e) => Story(expense[e], audit[e])

LEMMA WriteTells ==
    ASSUME TypeOK, Stories, NEW e \in Expenses, NEW actor, NEW action, NEW row,
           Write(e, actor, action, row),
           row # NULL => Story(row, Append(audit[e], [action |-> action, user |-> actor]))
    PROVE  Stories'
<1>1. /\ expense' = [expense EXCEPT ![e] = row]
      /\ audit' = [audit EXCEPT ![e] = Append(@, [action |-> action, user |-> actor])]
  BY DEF Write
<1>2. /\ expense'[e] = row
      /\ audit'[e] = Append(audit[e], [action |-> action, user |-> actor])
      /\ \A f \in Expenses \ {e} : expense'[f] = expense[f] /\ audit'[f] = audit[f]
  BY <1>1 DEF TypeOK
<1>3. ASSUME NEW f \in Expenses, expense'[f] # NULL
      PROVE  Story(expense'[f], audit'[f])
  BY <1>2, <1>3 DEF Stories, Exists
<1> QED
  BY <1>3 DEF Stories, Exists

LEMMA HandlerTells ==
    ASSUME IInv, Stories, NEW e \in Expenses, NEW actor \in User, Handler(e, actor)
    PROVE  Stories'
<1> DEFINE row == expense[e]
           trail == audit[e]
           entry(action) == [action |-> action, user |-> actor]
<1>1. TypeOK /\ trail \in Seq(AuditEntry)
  BY DEF IInv, TypeOK
<1>2. Exists(e) => row \in Expense /\ StampsTrue(row) /\ Tells(row.approval_history, trail)
  BY DEF IInv, TypeOK, Exists, Stories, Story
<1>3. \A action \in {"CREATE", "UPDATE", "DELETE"} : entry(action) \in AuditEntry
  BY DEF AuditEntry
<1>4. ASSUME NEW action \in Action, NEW new, Exists(e), Tale(row, new, action, actor),
             Write(e, actor, action, new)
      PROVE  Stories'
  <2>1. Story(new, Append(trail, entry(action)))
    BY <1>1, <1>2, <1>4, ToldByTale DEF Story
  <2> QED
    BY <1>1, <1>4, <2>1, WriteTells
<1>5. CASE Create(e, actor)
  <2>1. PICK expense_type \in {"regular", "reimbursement"}, p \in Project \cup {NULL},
             amount \in Amounts, category \in Categories :
            Write(e, actor, "CREATE", NewExpense(expense_type, p, amount, category, actor))
    BY <1>5 DEF Create
  <2> DEFINE new == NewExpense(expense_type, p, amount, category, actor)
  <2>2. /\ new.approval_history = <<>>
        /\ new.receipt_reviewed_by = NULL
        /\ new.verified_by = NULL
        /\ new.approved_by = NULL
        /\ new.paid_by = NULL
    BY DEF NewExpense
  <2> HIDE DEF new
  <2>3. trail = <<>>
    BY <1>5 DEF Create, Fresh
  <2>4. Story(new, Append(trail, entry("CREATE")))
    <3>1. StampsTrue(new)
      BY <2>2, TrailEmpty DEF StampsTrue
    <3>2. Tells(new.approval_history, trail)
      BY <2>2, <2>3, TrailEmpty
    <3> QED
      BY <1>1, <1>3, <3>1, <3>2, TrailAside DEF Story
  <2> QED
    BY <1>1, <2>1, <2>4, WriteTells DEF new
<1>6. CASE Update(e, actor)
  <2>1. PICK amount \in Amounts, category \in Categories :
            Write(e, actor, "UPDATE", Edited(row, amount, category))
    BY <1>6 DEF Update
  <2> DEFINE new == Edited(row, amount, category)
  <2>2. Exists(e)
    BY <1>6 DEF Update
  <2>3. new.approval_history = row.approval_history /\ SameStamps(row, new)
    BY <1>2, <2>2 DEF Edited, Expense, SameStamps
  <2> HIDE DEF new
  <2>4. StampsTrue(new)
    BY <1>2, <2>2, <2>3 DEF StampsTrue, SameStamps
  <2>5. Story(new, Append(trail, entry("UPDATE")))
    BY <1>1, <1>2, <1>3, <2>2, <2>3, <2>4, TrailAside DEF Story
  <2> QED
    BY <1>1, <2>1, <2>5, WriteTells DEF new
<1>7. CASE Submit(e, actor)
  <2>1. PICK chain \in SubmissionChains(rules, row.expense_type, row.amount, row.category) :
            Write(e, actor, "SUBMIT", Started(row, actor, chain))
    BY <1>7 DEF Submit
  <2>2. chain \in Seq(Role)
    BY <1>1, SubmissionChainType DEF TypeOK
  <2>3. Exists(e)
    BY <1>7 DEF Submit
  <2>4. Tale(row, Started(row, actor, chain), "SUBMIT", actor)
    BY <1>2, <2>2, <2>3, Tales
  <2> QED
    BY <1>4, <2>1, <2>3, <2>4 DEF Action
<1>8. CASE Verify(e, actor)
  <2>1. Exists(e) /\ Write(e, actor, VerifyAction(actor), Verified(row, actor))
    BY <1>8 DEF Verify
  <2>2. VerifyAction(actor) \in Action
    BY DEF VerifyAction, Action
  <2>3. Tale(row, Verified(row, actor), VerifyAction(actor), actor)
    BY <1>2, <2>1, Tales
  <2> QED
    BY <1>4, <2>1, <2>2, <2>3
<1>9. CASE Approve(e, actor)
  BY <1>2, <1>4, <1>9, Tales DEF Approve, Action
<1>10. CASE Pay(e, actor)
  BY <1>2, <1>4, <1>10, Tales DEF Pay, Action
<1>11. CASE Lock(e, actor)
  BY <1>2, <1>4, <1>11, Tales DEF Lock, Action
<1>12. CASE Reject(e, actor)
  BY <1>2, <1>4, <1>12, Tales DEF Reject, Action
<1>13. CASE Delete(e, actor)
  BY <1>1, <1>13, WriteTells DEF Delete
<1>14. CASE PostPayroll(e, actor)
  <2>1. PICK amount \in Amounts :
            expense' = [expense EXCEPT ![e] = PayrollExpense(amount, actor)]
    BY <1>14 DEF PostPayroll
  <2> DEFINE new == PayrollExpense(amount, actor)
  <2>2. /\ new.approval_history = <<>>
        /\ new.receipt_reviewed_by = NULL
        /\ new.verified_by = NULL
        /\ new.paid_by = NULL
        /\ new.payroll = TRUE
    BY DEF PayrollExpense, NewExpense
  <2>3. trail = <<>> /\ UNCHANGED audit
    BY <1>14 DEF PostPayroll, Fresh
  <2> HIDE DEF new
  <2>4. Story(new, audit[e])
    BY <2>2, <2>3, TrailEmpty DEF Story, StampsTrue
  <2>5. ASSUME NEW f \in Expenses, expense'[f] # NULL
        PROVE  Story(expense'[f], audit'[f])
    <3>1. expense'[f] = IF f = e THEN new ELSE expense[f]
      BY <1>1, <2>1 DEF TypeOK, new
    <3> QED
      BY <2>3, <2>4, <2>5, <3>1 DEF Stories, Exists
  <2> QED
    BY <2>5 DEF Stories, Exists
<1> QED
  BY <1>5, <1>6, <1>7, <1>8, <1>9, <1>10, <1>11, <1>12, <1>13, <1>14 DEF Handler

\* Row, history, stamps and audit trail tell one story of every expense, in every round
\* of approval and whatever the administration does (append_history_event, write_audit
\* and the stamp columns of the handlers).
THEOREM RecordsAgreeHolds == Spec => []RecordsAgree
<1>1. Init => Stories
  BY DEF Init, Stories, Exists
<1>2. IInv /\ Stories /\ [Next]_vars => Stories'
  <2> SUFFICES ASSUME IInv, Stories, [Next]_vars
               PROVE  Stories'
    OBVIOUS
  <2>1. ASSUME UNCHANGED audit,
               \A e \in Expenses : expense'[e] = NULL \/ expense'[e] = expense[e]
        PROVE  Stories'
    BY <2>1 DEF Stories, Exists
  <2>2. CASE UNCHANGED vars
    BY <2>1, <2>2 DEF vars
  <2>3. CASE Administration
    BY <2>1, <2>3 DEF Administration, ToggleRule, ArchiveProject, DeleteProject
  <2> QED
    BY <2>2, <2>3, HandlerTells DEF Next
<1>3. Stories => RecordsAgree
  BY DEF Stories, Story, RecordsAgree, HistoryComplete, StampsMatchHistory
<1> QED
  BY <1>1, <1>2, <1>3, Inductive, PTL DEF Spec

\* The Action Center lists no expense on which every command would be refused
\* (expense_action_queue_clause against the guards of the handlers).
THEOREM QueueSoundHolds == Spec => []QueueSound
<1>1. QueueSound
  BY DEF QueueSound, InActionQueue, CanSubmit, CanApprove, CanPay, InFlight
<1> QED
  BY <1>1, PTL

---------------------------------------------------------------------------
\* The rule table and the loop that reads it: ApprovalMatrixTable, for every finite
\* table of rules and every amount.

\* Every set of numbers that is not empty has a least one.
LEMMA LeastNumber ==
    ASSUME NEW S \in SUBSET Nat, S # {}
    PROVE  \E n \in S : \A m \in S : n <= m
<1> DEFINE less == {ss \in Nat \X Nat : ss[1] < ss[2]}
<1>1. IsWellFoundedOn(less, Nat)
  BY NatLessThanWellFounded DEF OpToRel
<1>2. PICK n \in S : \A m \in S : <<m, n>> \notin less
  BY <1>1, WFMin
<1>3. \A m \in S : ~ (m < n)
  BY <1>2
<1> QED
  BY <1>3

\* Every family of subsets of a finite set that is not empty has a smallest member.
LEMMA SmallestSet ==
    ASSUME NEW S, IsFiniteSet(S), NEW F \in SUBSET SUBSET S, F # {}
    PROVE  \E s \in F : \A t \in F : t \subseteq s => t = s
<1> DEFINE sizes == {Cardinality(s) : s \in F}
<1>1. \A s \in F : IsFiniteSet(s) /\ Cardinality(s) \in Nat
  BY FS_Subset, FS_CardinalityType
<1>2. PICK n \in sizes : \A m \in sizes : n <= m
  <2>1. sizes \in SUBSET Nat /\ sizes # {}
    BY <1>1
  <2> HIDE DEF sizes
  <2> QED
    BY <2>1, LeastNumber
<1>3. PICK s \in F : n = Cardinality(s)
  BY <1>2
<1>4. ASSUME NEW t \in F, t \subseteq s
      PROVE  t = s
  <2>1. Cardinality(t) <= Cardinality(s) /\ (Cardinality(s) = Cardinality(t) => s = t)
    BY <1>1, <1>4, FS_Subset
  <2>2. Cardinality(s) <= Cardinality(t)
    BY <1>2, <1>3
  <2> QED
    BY <1>1, <2>1, <2>2
<1> QED
  BY <1>4

\* One turn of the loop: the role of the row is appended unless it was seen.
Taken(chain, rule) ==
    IF rule.required_role \in RolesIn(chain) THEN chain ELSE Append(chain, rule.required_role)

Greatest(s) == CHOOSE x \in s : \A y \in s : x >= y

\* What the loop returns, for every set of the rows it might have been given.
IsLoop(read, order, S) ==
    read = [s \in SUBSET S |-> IF s = {} THEN <<>>
                               ELSE Taken(read[s \ {Greatest(s)}], order[Greatest(s)])]

\* What the loop has returned after its first k rows.
Read(order, k) == (CHOOSE read : IsLoop(read, order, 1 .. k))[1 .. k]

LEMMA LoopUnfolds ==
    ASSUME NEW n \in Nat, NEW S, NEW order \in [1 .. n -> S]
    PROVE  Loop(order) = Read(order, n)
<1>1. DOMAIN order = 1 .. n
  OBVIOUS
<1>2. Loop(order) = (CHOOSE read : IsLoop(read, order, DOMAIN order))[DOMAIN order]
  BY Zenon DEF Loop, FoldLeft, MapThenFoldSet, Max, IsLoop, Taken, Greatest, RolesIn
<1> QED
  BY <1>1, <1>2 DEF Read

\* Sets of positions in a sequence.
Positions(S) == \E n \in Nat : S \subseteq 1 .. n

LEMMA PositionsFinite ==
    ASSUME NEW S, Positions(S)
    PROVE  IsFiniteSet(S) /\ \A s \in SUBSET S : Positions(s)
<1>1. PICK n \in Nat : S \subseteq 1 .. n
  BY DEF Positions
<1>2. IsFiniteSet(1 .. n)
  BY FS_Interval
<1> QED
  BY <1>1, <1>2, FS_Subset DEF Positions

LEMMA GreatestIsOf ==
    ASSUME NEW s, Positions(s), s # {}
    PROVE  Greatest(s) \in s /\ \A y \in s : Greatest(s) >= y
<1>1. PICK n \in Nat : s \subseteq 1 .. n
  BY DEF Positions
<1>3. PICK i \in s : \A j \in s : j <= i
  BY <1>1, GreatestNumber
<1>2. \A j \in s : i >= j
  BY <1>1, <1>3
<1> QED
  BY <1>2 DEF Greatest

LEMMA LoopUnique ==
    ASSUME NEW S, NEW S1, Positions(S), NEW order, NEW f, NEW g, IsLoop(f, order, S), IsLoop(g, order, S1),
           NEW u \in SUBSET (S \cap S1)
    PROVE  f[u] = g[u]
<1> DEFINE differ == {s \in SUBSET u : f[s] # g[s]}
<1> SUFFICES ASSUME differ # {} PROVE FALSE
  BY u \in SUBSET u
<1>1. PICK s \in differ : \A t \in differ : t \subseteq s => t = s
  <2>1. IsFiniteSet(u)
    BY PositionsFinite, FS_Subset
  <2>2. differ \in SUBSET SUBSET u
    OBVIOUS
  <2> HIDE DEF differ
  <2> QED
    BY <2>1, <2>2, SmallestSet
<1>2. /\ f[s] = IF s = {} THEN <<>> ELSE Taken(f[s \ {Greatest(s)}], order[Greatest(s)])
      /\ g[s] = IF s = {} THEN <<>> ELSE Taken(g[s \ {Greatest(s)}], order[Greatest(s)])
  BY DEF IsLoop
<1>3. s # {} /\ Greatest(s) \in s
  <2>1. s # {}
    BY <1>1, <1>2
  <2>2. Positions(s)
    BY PositionsFinite
  <2> QED
    BY <2>1, <2>2, GreatestIsOf
<1>4. f[s \ {Greatest(s)}] = g[s \ {Greatest(s)}]
  BY <1>1, <1>3
<1> QED
  BY <1>1, <1>2, <1>3, <1>4

LEMMA LoopExists ==
    ASSUME NEW S, Positions(S), NEW order
    PROVE  \E read : IsLoop(read, order, S)
<1> DEFINE missing == {s \in SUBSET S : ~ \E read : IsLoop(read, order, s)}
<1> SUFFICES ASSUME missing # {} PROVE FALSE
  BY S \in SUBSET S
<1>1. PICK s \in missing : \A t \in missing : t \subseteq s => t = s
  <2>1. IsFiniteSet(S)
    BY PositionsFinite
  <2>2. missing \in SUBSET SUBSET S
    OBVIOUS
  <2> HIDE DEF missing
  <2> QED
    BY <2>1, <2>2, SmallestSet
<1> DEFINE Of(t) == (CHOOSE read : IsLoop(read, order, t))[t]
           whole == [t \in SUBSET s |-> IF t = {} THEN <<>>
                                        ELSE Taken(Of(t \ {Greatest(t)}), order[Greatest(t)])]
<1>2. ASSUME NEW t \in SUBSET s, t # s
      PROVE  IsLoop(CHOOSE read : IsLoop(read, order, t), order, t)
  BY <1>1, <1>2
<1>3. ASSUME NEW t \in SUBSET s, t # {}
      PROVE  /\ t \ {Greatest(t)} \in SUBSET s
             /\ t \ {Greatest(t)} \in SUBSET t
             /\ t \ {Greatest(t)} # s
  <2>1. Positions(t)
    BY <1>1, PositionsFinite
  <2>2. Greatest(t) \in t
    BY <1>3, <2>1, GreatestIsOf
  <2> QED
    BY <1>3, <2>2
<1>4. ASSUME NEW t \in SUBSET s, t # s
      PROVE  whole[t] = Of(t)
  <2> DEFINE read == CHOOSE h : IsLoop(h, order, t)
             rest == t \ {Greatest(t)}
             less == CHOOSE h : IsLoop(h, order, rest)
  <2>1. IsLoop(read, order, t)
    BY <1>2, <1>4
  <2>2. read[t] = IF t = {} THEN <<>> ELSE Taken(read[rest], order[Greatest(t)])
    <3> HIDE DEF read
    <3> QED
      BY <2>1 DEF IsLoop
  <2>3. t # {} => read[rest] = less[rest]
    <3>1. t # {} => rest \in SUBSET s /\ rest # s /\ rest \in SUBSET (t \cap rest)
      BY <1>3
    <3>2. t # {} => IsLoop(less, order, rest)
      BY <1>2, <3>1
    <3>3. Positions(t)
      BY <1>1, PositionsFinite
    <3> HIDE DEF read, less, rest
    <3> QED
      BY <2>1, <3>1, <3>2, <3>3, LoopUnique
  <2> QED
    BY <2>2, <2>3
<1>5. \A t \in SUBSET s : t # {} => whole[t \ {Greatest(t)}] = Of(t \ {Greatest(t)})
  <2> HIDE DEF whole, Of
  <2> QED
    BY <1>3, <1>4
<1>6. IsLoop(whole, order, s)
  <2> HIDE DEF Of
  <2>1. whole = [t \in SUBSET s |-> IF t = {} THEN <<>>
                     ELSE Taken(whole[t \ {Greatest(t)}], order[Greatest(t)])]
    BY <1>5
  <2> HIDE DEF whole
  <2> QED
    BY <2>1 DEF IsLoop
<1> QED
  BY <1>1, <1>6

\* The loop, one row at a time.
LEMMA ReadStep ==
    ASSUME NEW order, NEW k \in Nat
    PROVE  /\ Read(order, 0) = <<>>
           /\ Read(order, k + 1) = Taken(Read(order, k), order[k + 1])
<1> DEFINE Chosen(m) == CHOOSE read : IsLoop(read, order, 1 .. m)
<1>1. ASSUME NEW m \in Nat
      PROVE  IsLoop(Chosen(m), order, 1 .. m)
  <2>1. \E read : IsLoop(read, order, 1 .. m)
    BY LoopExists DEF Positions
  <2> QED
    BY <2>1
<1>2. \A m \in Nat : Read(order, m) = Chosen(m)[1 .. m]
  BY DEF Read
<1> HIDE DEF Chosen
<1>3. IsLoop(Chosen(0), order, 1 .. 0) /\ IsLoop(Chosen(k), order, 1 .. k)
      /\ IsLoop(Chosen(k + 1), order, 1 .. (k + 1))
  BY <1>1
<1>4. Chosen(0)[1 .. 0] = <<>>
  <2>1. 1 .. 0 = {}
    OBVIOUS
  <2> QED
    BY <1>3, <2>1 DEF IsLoop
<1>5. Greatest(1 .. (k + 1)) = k + 1
  <2>1. 1 .. (k + 1) # {} /\ k + 1 \in 1 .. (k + 1) /\ k + 1 \in Nat
    OBVIOUS
  <2>2. /\ Greatest(1 .. (k + 1)) \in 1 .. (k + 1)
        /\ \A y \in 1 .. (k + 1) : Greatest(1 .. (k + 1)) >= y
    <3>1. Positions(1 .. (k + 1))
      BY <2>1 DEF Positions
    <3> QED
      BY <2>1, <3>1, GreatestIsOf
  <2> QED
    BY <2>1, <2>2
<1>6. (1 .. (k + 1)) \ {k + 1} = 1 .. k
  OBVIOUS
<1>7. Chosen(k + 1)[1 .. (k + 1)] = Taken(Chosen(k + 1)[1 .. k], order[k + 1])
  <2>1. 1 .. (k + 1) # {}
    OBVIOUS
  <2> QED
    BY <1>3, <1>5, <1>6, <2>1 DEF IsLoop
<1>8. Chosen(k + 1)[1 .. k] = Chosen(k)[1 .. k]
  <2>1. 1 .. k \subseteq 1 .. (k + 1)
    OBVIOUS
  <2>2. Positions(1 .. (k + 1))
    <3>1. k + 1 \in Nat
      OBVIOUS
    <3> QED
      BY <3>1 DEF Positions
  <2>3. PICK P, Q, f, g : /\ P = 1 .. (k + 1) /\ Q = 1 .. k
                          /\ f = Chosen(k + 1) /\ g = Chosen(k)
    OBVIOUS
  <2>4. /\ Positions(P) /\ Q \in SUBSET (P \cap Q)
        /\ IsLoop(f, order, P) /\ IsLoop(g, order, Q)
    BY <1>3, <2>1, <2>2, <2>3, Zenon
  <2>5. f[Q] = g[Q]
    BY <2>4, LoopUnique
  <2> QED
    BY <2>3, <2>5
<1> QED
  BY <1>2, <1>4, <1>7, <1>8

\* The first row of a role.
FirstRow(order, role) ==
    CHOOSE m \in DOMAIN order :
        /\ order[m].required_role = role
        /\ \A l \in DOMAIN order : order[l].required_role = role => m <= l

LEMMA FirstRowIs ==
    ASSUME NEW n \in Nat, NEW order, DOMAIN order = 1 .. n, NEW m \in 1 .. n
    PROVE  LET first == FirstRow(order, order[m].required_role)
           IN  /\ first \in 1 .. n
               /\ order[first].required_role = order[m].required_role
               /\ \A l \in 1 .. n :
                      order[l].required_role = order[m].required_role => first <= l
<1> DEFINE its == {l \in 1 .. n : order[l].required_role = order[m].required_role}
<1>1. its \in SUBSET Nat /\ its # {}
  OBVIOUS
<1>2. PICK k \in its : \A l \in its : k <= l
  <2> HIDE DEF its
  <2> QED
    BY <1>1, LeastNumber
<1>3. /\ k \in 1 .. n /\ order[k].required_role = order[m].required_role
      /\ \A l \in 1 .. n : order[l].required_role = order[m].required_role => k <= l
  BY <1>2
<1> QED
  BY <1>3 DEF FirstRow

\* After k rows: the roles of those rows, by the place of the first row of each.
ReadSound(order, k) ==
    LET chain == Read(order, k)
    IN  /\ chain \in Seq(Role)
        /\ \A i \in 1 .. Len(chain) : \E m \in 1 .. k : order[m].required_role = chain[i]
        /\ \A m \in 1 .. k : order[m].required_role \in RolesIn(chain)
        /\ \A i, j \in 1 .. Len(chain) :
               i < j => FirstRow(order, chain[i]) < FirstRow(order, chain[j])

LEMMA ReadKeepsSound ==
    ASSUME NEW n \in Nat, NEW order, DOMAIN order = 1 .. n,
           \A m \in 1 .. n : order[m].required_role \in Role,
           NEW k \in Nat, k < n, ReadSound(order, k)
    PROVE  ReadSound(order, k + 1)
<1> DEFINE role == order[k + 1].required_role
<1>1. PICK chain : chain = Read(order, k)
  OBVIOUS
<1>2. /\ chain \in Seq(Role)
      /\ \A i \in 1 .. Len(chain) : \E m \in 1 .. k : order[m].required_role = chain[i]
      /\ \A m \in 1 .. k : order[m].required_role \in RolesIn(chain)
      /\ \A i, j \in 1 .. Len(chain) :
             i < j => FirstRow(order, chain[i]) < FirstRow(order, chain[j])
  BY <1>1 DEF ReadSound
<1>3. Read(order, k + 1) = IF role \in RolesIn(chain) THEN chain ELSE Append(chain, role)
  BY <1>1, ReadStep DEF Taken
<1>4. k + 1 \in 1 .. n /\ 1 .. k \subseteq 1 .. n /\ 1 .. (k + 1) = (1 .. k) \cup {k + 1}
  OBVIOUS
<1>5. CASE role \in RolesIn(chain)
  <2>1. Read(order, k + 1) = chain
    BY <1>3, <1>5
  <2>2. \A m \in 1 .. (k + 1) : order[m].required_role \in RolesIn(chain)
    BY <1>2, <1>4, <1>5
  <2>3. \A i \in 1 .. Len(chain) : \E m \in 1 .. (k + 1) : order[m].required_role = chain[i]
    BY <1>2, <1>4
  <2> QED
    BY <1>2, <2>1, <2>2, <2>3 DEF ReadSound
<1>6. CASE role \notin RolesIn(chain)
  <2> DEFINE last == Len(chain) + 1
  <2>1. PICK longer : longer = Append(chain, role)
    OBVIOUS
  <2>2. Read(order, k + 1) = longer
    BY <1>3, <1>6, <2>1
  <2>3. role \in Role
    BY <1>4
  <2>4. /\ longer \in Seq(Role)
        /\ Len(chain) \in Nat
        /\ Len(longer) = last
        /\ longer[last] = role
        /\ \A i \in 1 .. Len(chain) : longer[i] = chain[i]
    BY <1>2, <2>1, <2>3
  <2>5. 1 .. last = (1 .. Len(chain)) \cup {last}
    BY <2>4
  <2>6. \A i \in 1 .. last : \E m \in 1 .. (k + 1) : order[m].required_role = longer[i]
    <3>1. \E m \in 1 .. (k + 1) : order[m].required_role = longer[last]
      BY <1>4, <2>4
    <3>2. \A i \in 1 .. Len(chain) : \E m \in 1 .. (k + 1) : order[m].required_role = longer[i]
      BY <1>2, <1>4, <2>4
    <3> HIDE DEF last
    <3> QED
      BY <2>5, <3>1, <3>2
  <2>7. RolesIn(longer) = RolesIn(chain) \cup {role}
    <3>1. RolesIn(longer) = {longer[i] : i \in (1 .. Len(chain)) \cup {last}}
      BY <2>4, <2>5 DEF RolesIn
    <3>2. RolesIn(chain) = {longer[i] : i \in 1 .. Len(chain)}
      BY <2>4 DEF RolesIn
    <3> QED
      BY <2>4, <3>1, <3>2
  <2>8. \A m \in 1 .. (k + 1) : order[m].required_role \in RolesIn(longer)
    BY <1>2, <1>4, <2>7
  <2>9. FirstRow(order, role) = k + 1
    <3>1. /\ FirstRow(order, role) \in 1 .. n
          /\ order[FirstRow(order, role)].required_role = role
          /\ FirstRow(order, role) <= k + 1
      BY <1>4, FirstRowIs
    <3>2. FirstRow(order, role) \notin 1 .. k
      BY <1>2, <1>6, <3>1
    <3> QED
      BY <3>1, <3>2
  <2>10. \A i \in 1 .. Len(chain) : FirstRow(order, chain[i]) < k + 1
    <3> SUFFICES ASSUME NEW i \in 1 .. Len(chain)
                 PROVE  FirstRow(order, chain[i]) < k + 1
      OBVIOUS
    <3>1. PICK m \in 1 .. k : order[m].required_role = chain[i]
      BY <1>2
    <3>2. m \in 1 .. n
      BY <1>4
    <3>3. FirstRow(order, chain[i]) \in 1 .. n /\ FirstRow(order, chain[i]) <= m
      BY <3>1, <3>2, FirstRowIs
    <3> QED
      BY <3>3
  <2>11. ASSUME NEW i \in 1 .. last, NEW j \in 1 .. last, i < j
         PROVE  FirstRow(order, longer[i]) < FirstRow(order, longer[j])
    <3>1. i \in 1 .. Len(chain)
      BY <2>4, <2>11
    <3>2. CASE j = last
      BY <2>4, <2>9, <2>10, <3>1, <3>2
    <3>3. CASE j # last
      <4>1. j \in 1 .. Len(chain)
        BY <2>4, <3>3
      <4> QED
        BY <1>2, <2>4, <2>11, <3>1, <4>1
    <3> QED
      BY <3>2, <3>3
  <2> HIDE DEF last, role
  <2> QED
    BY <2>2, <2>4, <2>6, <2>8, <2>11 DEF ReadSound
<1> QED
  BY <1>5, <1>6

LEMMA ReadIsSound ==
    ASSUME NEW n \in Nat, NEW order, DOMAIN order = 1 .. n,
           \A m \in 1 .. n : order[m].required_role \in Role
    PROVE  ReadSound(order, n)
<1> DEFINE wrong == {k \in 0 .. n : ~ ReadSound(order, k)}
<1> SUFFICES ASSUME wrong # {} PROVE FALSE
  OBVIOUS
<1>1. PICK k \in wrong : \A m \in wrong : k <= m
  <2>1. wrong \in SUBSET Nat
    OBVIOUS
  <2> HIDE DEF wrong
  <2> QED
    BY <2>1, LeastNumber
<1>2. k \in 0 .. n /\ ~ ReadSound(order, k)
  BY <1>1
<1>3. ReadSound(order, 0)
  <2>1. Read(order, 0) = <<>>
    <3>1. 0 \in Nat
      OBVIOUS
    <3> QED
      BY <3>1, ReadStep
  <2>2. Len(<<>>) = 0 /\ <<>> \in Seq(Role) /\ 1 .. 0 = {}
    OBVIOUS
  <2> QED
    BY <2>1, <2>2, Zenon DEF ReadSound
<1>4. k # 0
  BY <1>2, <1>3
<1>5. k - 1 \in Nat /\ k - 1 < n /\ k - 1 \in 0 .. n /\ (k - 1) + 1 = k
  BY <1>2, <1>4
<1>6. ReadSound(order, k - 1)
  <2>1. k - 1 \notin wrong
    BY <1>1, <1>2
  <2> QED
    BY <1>5, <2>1
<1>7. ReadSound(order, (k - 1) + 1)
  BY <1>5, <1>6, ReadKeepsSound
<1> QED
  BY <1>2, <1>5, <1>7

---------------------------------------------------------------------------
\* Enumerations of a finite set.

LEMMA FillsUp ==
    ASSUME NEW S, IsFiniteSet(S), NEW f \in [1 .. Cardinality(S) -> S],
           \A i, j \in 1 .. Cardinality(S) : i # j => f[i] # f[j]
    PROVE  \A x \in S : \E i \in 1 .. Cardinality(S) : f[i] = x
<1>1. Cardinality(S) \in Nat
  BY FS_CardinalityType
<1>2. IsFiniteSet(1 .. Cardinality(S)) /\ Cardinality(1 .. Cardinality(S)) = Cardinality(S)
  BY <1>1, FS_Interval
<1>3. f \in Injection(1 .. Cardinality(S), S)
  BY DEF Injection, IsInjective
<1>4. f \in Surjection(1 .. Cardinality(S), S)
  BY <1>2, <1>3, FS_Injection
<1> QED
  BY <1>4 DEF Surjection

\* f runs through S in increasing order of a key.
Increasing(f, n, S, key) ==
    /\ f \in [1 .. n -> S]
    /\ \A x \in S : \E i \in 1 .. n : f[i] = x
    /\ \A i, j \in 1 .. n : i < j => key[f[i]] < key[f[j]]

\* A finite set is enumerated in increasing order of a key in one way only.
LEMMA OneIncreasing ==
    ASSUME NEW n \in Nat, NEW S, NEW key \in [S -> Int], NEW f, NEW g,
           Increasing(f, n, S, key), Increasing(g, n, S, key)
    PROVE  f = g
<1>7. /\ f \in [1 .. n -> S] /\ g \in [1 .. n -> S]
      /\ \A x \in S : \E i \in 1 .. n : f[i] = x
      /\ \A x \in S : \E i \in 1 .. n : g[i] = x
      /\ \A i, j \in 1 .. n : i < j => key[f[i]] < key[f[j]] /\ key[g[i]] < key[g[j]]
  BY DEF Increasing
<1> DEFINE differ == {i \in 1 .. n : f[i] # g[i]}
<1>0. (\A i \in 1 .. n : f[i] = g[i]) => f = g
  BY <1>7
<1> SUFFICES ASSUME differ # {} PROVE FALSE
  BY <1>0
<1>1. PICK k \in differ : \A m \in differ : k <= m
  <2>1. differ \in SUBSET Nat
    OBVIOUS
  <2> HIDE DEF differ
  <2> QED
    BY <2>1, LeastNumber
<1>2. k \in 1 .. n /\ f[k] # g[k] /\ \A m \in 1 .. n : m < k => f[m] = g[m]
  BY <1>1
<1>3. key[g[k]] < key[f[k]]
  <2>1. PICK m \in 1 .. n : g[m] = f[k]
    BY <1>2, <1>7
  <2>2. ~ (m < k)
    <3>1. m < k => f[m] = f[k] /\ key[f[m]] < key[f[k]]
      BY <1>2, <1>7, <2>1
    <3>2. key[f[k]] \in Int
      BY <1>2, <1>7
    <3> QED
      BY <3>1, <3>2
  <2>3. k < m
    BY <1>2, <2>1, <2>2
  <2> QED
    BY <1>2, <1>7, <2>1, <2>3
<1>4. key[f[k]] < key[g[k]]
  <2>1. PICK m \in 1 .. n : f[m] = g[k]
    BY <1>2, <1>7
  <2>2. ~ (m < k)
    <3>1. m < k => g[m] = g[k] /\ key[g[m]] < key[g[k]]
      BY <1>2, <1>7, <2>1
    <3>2. key[g[k]] \in Int
      BY <1>2, <1>7
    <3> QED
      BY <3>1, <3>2
  <2>3. k < m
    BY <1>2, <2>1, <2>2
  <2> QED
    BY <1>2, <1>7, <2>1, <2>3
<1>5. key[f[k]] \in Int /\ key[g[k]] \in Int
  BY <1>2, <1>7
<1> QED
  BY <1>3, <1>4, <1>5

\* Neighbours in order: all in order.
LEMMA AllInOrder ==
    ASSUME NEW n \in Nat, NEW height \in [1 .. n -> Int],
           \A i \in 1 .. n - 1 : height[i] <= height[i + 1],
           NEW i \in 1 .. n, NEW j \in 1 .. n, i < j
    PROVE  height[i] <= height[j]
<1> DEFINE wrong == {k \in 1 .. n : i < k /\ ~ (height[i] <= height[k])}
<1> SUFFICES ASSUME wrong # {} PROVE FALSE
  OBVIOUS
<1>1. PICK k \in wrong : \A m \in wrong : k <= m
  <2>1. wrong \in SUBSET Nat
    OBVIOUS
  <2> HIDE DEF wrong
  <2> QED
    BY <2>1, LeastNumber
<1>2. k \in 1 .. n /\ i < k /\ ~ (height[i] <= height[k])
  BY <1>1
<1>3. k - 1 \in 1 .. n - 1 /\ (k - 1) + 1 = k /\ k - 1 \in 1 .. n
  BY <1>2
<1>4. height[k - 1] <= height[k]
  BY <1>3
<1>5. height[i] <= height[k - 1]
  <2>1. CASE i = k - 1
    BY <2>1
  <2>2. CASE i < k - 1
    <3>1. k - 1 \notin wrong
      BY <1>1, <1>2
    <3> QED
      BY <1>3, <2>2, <3>1
  <2> QED
    BY <1>2, <2>1, <2>2
<1>6. height[i] \in Int /\ height[k] \in Int /\ height[k - 1] \in Int
  BY <1>2, <1>3
<1> QED
  BY <1>2, <1>4, <1>5, <1>6

---------------------------------------------------------------------------
\* The loop on a table.

Required(S) == {rule.required_role : rule \in S}

Rows(S) == IsFiniteSet(S) /\ \A r \in S : r.required_role \in Role /\ r.priority \in Nat

\* An order of the rows of a table, each once.
Order(order, S) ==
    /\ order \in [1 .. Cardinality(S) -> S]
    /\ \A i, j \in 1 .. Cardinality(S) : i # j => order[i] # order[j]

LEMMA RequiredFinite ==
    ASSUME NEW S, Rows(S)
    PROVE  /\ Required(S) \subseteq Role
           /\ IsFiniteSet(Required(S))
           /\ Cardinality(Required(S)) \in Nat
<1>1. Required(S) \subseteq Role
  BY DEF Rows, Required
<1> QED
  BY <1>1, RoleFinite, FS_Subset, FS_CardinalityType

\* The loop finds every role that is required, each once, by the first row of each.
LEMMA LoopEnumerates ==
    ASSUME NEW S, Rows(S), NEW order, Order(order, S)
    PROVE  LET chain == Read(order, Cardinality(S))
               n == Cardinality(Required(S))
           IN  /\ chain \in [1 .. n -> Required(S)]
               /\ \A role \in Required(S) : \E i \in 1 .. n : chain[i] = role
               /\ \A i, j \in 1 .. n :
                      i < j => FirstRow(order, chain[i]) < FirstRow(order, chain[j])
<1> DEFINE m == Cardinality(S)
<1>1. m \in Nat
  BY FS_CardinalityType DEF Rows
<1>2. /\ DOMAIN order = 1 .. m
      /\ \A i \in 1 .. m : order[i] \in S
      /\ \A i \in 1 .. m : order[i].required_role \in Role
      /\ \A r \in S : \E i \in 1 .. m : order[i] = r
  <2>1. /\ DOMAIN order = 1 .. m
        /\ \A i \in 1 .. m : order[i] \in S
    BY DEF Order
  <2>2. \A r \in S : \E i \in 1 .. m : order[i] = r
    BY FillsUp DEF Order, Rows
  <2> QED
    BY <2>1, <2>2 DEF Rows
<1>3. PICK chain : chain = Read(order, m)
  OBVIOUS
<1>4. ReadSound(order, m)
  <2> HIDE DEF m
  <2> QED
    BY <1>1, <1>2, ReadIsSound
<1>5. /\ chain \in Seq(Role)
      /\ \A i \in 1 .. Len(chain) : \E k \in 1 .. m : order[k].required_role = chain[i]
      /\ \A k \in 1 .. m : order[k].required_role \in RolesIn(chain)
      /\ \A i, j \in 1 .. Len(chain) :
             i < j => FirstRow(order, chain[i]) < FirstRow(order, chain[j])
  BY <1>3, <1>4 DEF ReadSound
<1>6. \A i \in 1 .. Len(chain) : /\ chain[i] \in Required(S)
                                 /\ FirstRow(order, chain[i]) \in 1 .. m
  <2> HIDE DEF m
  <2> SUFFICES ASSUME NEW i \in 1 .. Len(chain)
               PROVE  chain[i] \in Required(S) /\ FirstRow(order, chain[i]) \in 1 .. m
    OBVIOUS
  <2>1. PICK k \in 1 .. m : order[k].required_role = chain[i]
    BY <1>5
  <2>2. chain[i] \in Required(S)
    BY <1>2, <2>1 DEF Required
  <2>3. FirstRow(order, chain[i]) \in 1 .. m
    BY <1>1, <1>2, <2>1, FirstRowIs
  <2> QED
    BY <2>2, <2>3
<1>7. \A role \in Required(S) : \E i \in 1 .. Len(chain) : chain[i] = role
  BY <1>2, <1>5 DEF Required, RolesIn
<1>8. Len(chain) \in Nat /\ chain \in [1 .. Len(chain) -> Required(S)]
  BY <1>5, <1>6
<1>9. \A i, j \in 1 .. Len(chain) : i # j => chain[i] # chain[j]
  <2> HIDE DEF m
  <2> SUFFICES ASSUME NEW i \in 1 .. Len(chain), NEW j \in 1 .. Len(chain), i # j
               PROVE  chain[i] # chain[j]
    OBVIOUS
  <2>1. FirstRow(order, chain[i]) < FirstRow(order, chain[j])
        \/ FirstRow(order, chain[j]) < FirstRow(order, chain[i])
    BY <1>5
  <2>2. FirstRow(order, chain[i]) \in 1 .. m /\ FirstRow(order, chain[j]) \in 1 .. m
    BY <1>6
  <2> QED
    BY <1>1, <2>1, <2>2
<1>10. Cardinality(Required(S)) = Len(chain)
  <2>1. chain \in Bijection(1 .. Len(chain), Required(S))
    BY <1>7, <1>8, <1>9 DEF Bijection, Injection, Surjection, IsInjective
  <2> QED
    BY <1>8, <2>1, FS_CountingElements DEF ExistsBijection
<1> QED
  BY <1>3, <1>5, <1>7, <1>8, <1>10 DEF m

\* The rows in order of priority.
ByPriority(order, n) == \A i \in 1 .. n - 1 : order[i].priority <= order[i + 1].priority

\* Of two roles the loop reads one after the other the first is read no later.
LEMMA FirstReadNoLater ==
    ASSUME NEW S, Rows(S), NEW order, Order(order, S), ByPriority(order, Cardinality(S)),
           NEW p \in Required(S), NEW q \in Required(S),
           FirstRow(order, p) < FirstRow(order, q)
    PROVE  ReadNoLater(S, p, q)
<1> DEFINE n == Cardinality(S)
           height == [i \in 1 .. n |-> order[i].priority]
<1>1. n \in Nat
  BY FS_CardinalityType DEF Rows
<1>2. /\ DOMAIN order = 1 .. n
      /\ \A i \in 1 .. n : order[i] \in S /\ order[i].priority \in Nat
      /\ \A r \in S : \E i \in 1 .. n : order[i] = r
  <2>1. /\ DOMAIN order = 1 .. n
        /\ \A i \in 1 .. n : order[i] \in S
    BY DEF Order
  <2>2. \A r \in S : \E i \in 1 .. n : order[i] = r
    BY FillsUp DEF Order, Rows
  <2> QED
    BY <2>1, <2>2 DEF Rows
<1>3. \A i, j \in 1 .. n : i < j => order[i].priority <= order[j].priority
  <2>1. /\ height \in [1 .. n -> Int]
        /\ \A i \in 1 .. n : height[i] = order[i].priority
    BY <1>2
  <2>2. \A i \in 1 .. n - 1 : height[i] <= height[i + 1]
    <3> SUFFICES ASSUME NEW i \in 1 .. n - 1 PROVE height[i] <= height[i + 1]
      OBVIOUS
    <3>1. i \in 1 .. n /\ i + 1 \in 1 .. n
      BY <1>1
    <3> HIDE DEF height, n
    <3> QED
      BY <2>1, <3>1 DEF ByPriority, n
  <2> HIDE DEF height, n
  <2>3. \A i, j \in 1 .. n : i < j => height[i] <= height[j]
    BY <1>1, <2>1, <2>2, AllInOrder
  <2> QED
    BY <2>1, <2>3
<1>4. PICK a \in 1 .. n : a = FirstRow(order, p) /\ order[a].required_role = p
  <2>1. PICK k \in 1 .. n : order[k].required_role = p
    BY <1>2 DEF Required
  <2>2. LET first == FirstRow(order, order[k].required_role)
        IN  first \in 1 .. n /\ order[first].required_role = order[k].required_role
    <3> HIDE DEF n
    <3> QED
      BY <1>1, <1>2, FirstRowIs
  <2> QED
    BY <2>1, <2>2
<1>5. ASSUME NEW later \in S, later.required_role = q
      PROVE  order[a].priority <= later.priority
  <2>1. PICK k \in 1 .. n : order[k] = later
    BY <1>2
  <2>2. FirstRow(order, q) \in 1 .. n /\ FirstRow(order, q) <= k
    <3> HIDE DEF n
    <3> QED
      BY <1>1, <1>2, <1>5, <2>1, FirstRowIs
  <2>3. a < k
    BY <1>4, <2>2
  <2> QED
    BY <1>3, <2>1, <2>3
<1> QED
  BY <1>2, <1>4, <1>5 DEF ReadNoLater

\* Whatever order the rows of a table come in, the loop returns a chain of the matrix.
LEMMA LoopIsSound ==
    ASSUME NEW S, Rows(S), NEW order, Order(order, S), ByPriority(order, Cardinality(S))
    PROVE  LET chain == Read(order, Cardinality(S))
               n == Cardinality(Required(S))
           IN  /\ chain \in [1 .. n -> Required(S)]
               /\ \A i, j \in 1 .. n :
                      i < j => chain[i] # chain[j] /\ ReadNoLater(S, chain[i], chain[j])
<1>1. PICK chain, n : chain = Read(order, Cardinality(S)) /\ n = Cardinality(Required(S))
  OBVIOUS
<1>2. /\ chain \in [1 .. n -> Required(S)]
      /\ \A i, j \in 1 .. n : i < j => FirstRow(order, chain[i]) < FirstRow(order, chain[j])
  BY <1>1, LoopEnumerates
<1>3. \A role \in Required(S) : FirstRow(order, role) \in Int
  <2> SUFFICES ASSUME NEW role \in Required(S) PROVE FirstRow(order, role) \in Int
    OBVIOUS
  <2>1. PICK m : m = Cardinality(S)
    OBVIOUS
  <2>2. m \in Nat
    BY <2>1, FS_CardinalityType DEF Rows
  <2>3. PICK r \in S : r.required_role = role
    BY DEF Required
  <2>4. PICK k \in 1 .. m : order[k] = r
    BY <2>1, FillsUp DEF Order, Rows
  <2>5. DOMAIN order = 1 .. m
    BY <2>1 DEF Order
  <2> QED
    BY <2>2, <2>3, <2>4, <2>5, FirstRowIs
<1>4. ASSUME NEW i \in 1 .. n, NEW j \in 1 .. n, i < j
      PROVE  chain[i] # chain[j] /\ ReadNoLater(S, chain[i], chain[j])
  <2>1. FirstRow(order, chain[i]) < FirstRow(order, chain[j])
    BY <1>2, <1>4
  <2>2. chain[i] \in Required(S) /\ chain[j] \in Required(S)
    BY <1>2
  <2>3. chain[i] # chain[j]
    BY <1>3, <2>1, <2>2
  <2> QED
    BY <2>1, <2>2, <2>3, FirstReadNoLater
<1> QED
  BY <1>1, <1>2, <1>4

---------------------------------------------------------------------------
\* Every chain of the matrix is one the loop may return.

\* A total and transitive relation on a finite set has a greatest member.
LEMMA LastMember ==
    ASSUME NEW S, IsFiniteSet(S), S # {}, NEW R,
           \A x, y \in S : <<x, y>> \in R \/ <<y, x>> \in R,
           \A x, y, z \in S : <<x, y>> \in R /\ <<y, z>> \in R => <<x, z>> \in R
    PROVE  \E m \in S : \A x \in S : <<x, m>> \in R
<1> DEFINE wrong == {s \in SUBSET S : s # {} /\ ~ \E m \in s : \A x \in s : <<x, m>> \in R}
<1> SUFFICES ASSUME wrong # {} PROVE FALSE
  BY S \in SUBSET S
<1>1. PICK s \in wrong : \A t \in wrong : t \subseteq s => t = s
  <2>1. wrong \in SUBSET SUBSET S
    OBVIOUS
  <2> HIDE DEF wrong
  <2> QED
    BY <2>1, SmallestSet
<1>2. s \in SUBSET S /\ s # {} /\ ~ \E m \in s : \A x \in s : <<x, m>> \in R
  BY <1>1
<1>3. PICK y \in s : TRUE
  BY <1>2
<1>4. s \ {y} \notin wrong
  <2>1. s \ {y} \subseteq s /\ s \ {y} # s
    BY <1>3
  <2> HIDE DEF wrong
  <2> QED
    BY <1>1, <2>1
<1>5. CASE s \ {y} = {}
  BY <1>2, <1>3, <1>5
<1>6. CASE s \ {y} # {}
  <2>1. PICK m \in s \ {y} : \A x \in s \ {y} : <<x, m>> \in R
    BY <1>2, <1>4, <1>6
  <2>2. CASE <<y, m>> \in R
    BY <1>2, <2>1, <2>2
  <2>3. CASE <<y, m>> \notin R
    <3>1. <<m, y>> \in R /\ <<y, y>> \in R
      BY <1>2, <1>3, <2>1, <2>3
    <3>2. \A x \in s : <<x, y>> \in R
      BY <1>2, <1>3, <2>1, <3>1
    <3> QED
      BY <1>2, <1>3, <3>2
  <2> QED
    BY <2>2, <2>3
<1> QED
  BY <1>5, <1>6

Sorted(f, S, R) ==
    /\ Order(f, S)
    /\ \A i, j \in 1 .. Cardinality(S) : i < j => <<f[i], f[j]>> \in R

\* A finite set can be enumerated in the order of a total and transitive relation.
LEMMA CanBeSorted ==
    ASSUME NEW S, IsFiniteSet(S), NEW R,
           \A x, y \in S : <<x, y>> \in R \/ <<y, x>> \in R,
           \A x, y, z \in S : <<x, y>> \in R /\ <<y, z>> \in R => <<x, z>> \in R
    PROVE  \E f : Sorted(f, S, R)
<1> DEFINE wrong == {s \in SUBSET S : ~ \E f : Sorted(f, s, R)}
<1> SUFFICES ASSUME wrong # {} PROVE FALSE
  BY S \in SUBSET S
<1>1. PICK s \in wrong : \A t \in wrong : t \subseteq s => t = s
  <2>1. wrong \in SUBSET SUBSET S
    OBVIOUS
  <2> HIDE DEF wrong
  <2> QED
    BY <2>1, SmallestSet
<1>2. s \in SUBSET S /\ ~ \E f : Sorted(f, s, R)
  BY <1>1
<1>3. s # {}
  <2>1. Cardinality({}) = 0
    BY FS_EmptySet
  <2>2. <<>> \in [1 .. 0 -> {}] /\ 1 .. 0 = {}
    OBVIOUS
  <2>3. Sorted(<<>>, {}, R)
    BY <2>1, <2>2 DEF Sorted, Order
  <2> QED
    BY <1>2, <2>3
<1>4. IsFiniteSet(s)
  BY <1>2, FS_Subset
<1>5. PICK m \in s : \A x \in s : <<x, m>> \in R
  <2>1. /\ \A x, y \in s : <<x, y>> \in R \/ <<y, x>> \in R
        /\ \A x, y, z \in s : <<x, y>> \in R /\ <<y, z>> \in R => <<x, z>> \in R
    BY <1>2
  <2> QED
    BY <1>3, <1>4, <2>1, LastMember
<1>6. PICK rest : rest = s \ {m}
  OBVIOUS
<1>7. PICK f : Sorted(f, rest, R)
  BY <1>1, <1>5, <1>6
<1>8. PICK k : k = Cardinality(rest)
  OBVIOUS
<1>9. k \in Nat /\ Cardinality(s) = k + 1 /\ rest \in SUBSET s /\ m \notin rest
  <2>1. IsFiniteSet(rest) /\ Cardinality(rest) = Cardinality(s) - 1
    BY <1>4, <1>5, <1>6, FS_RemoveElement
  <2>2. Cardinality(rest) \in Nat /\ Cardinality(s) \in Nat
    BY <1>4, <2>1, FS_CardinalityType
  <2> QED
    BY <1>6, <1>8, <2>1, <2>2
<1>10. /\ f \in [1 .. k -> rest]
       /\ \A i, j \in 1 .. k : i # j => f[i] # f[j]
       /\ \A i, j \in 1 .. k : i < j => <<f[i], f[j]>> \in R
  BY <1>7, <1>8 DEF Sorted, Order
<1> DEFINE longer == [i \in 1 .. k + 1 |-> IF i = k + 1 THEN m ELSE f[i]]
<1>11. /\ 1 .. k + 1 = (1 .. k) \cup {k + 1}
       /\ k + 1 \notin 1 .. k
  BY <1>9
<1>12. /\ longer[k + 1] = m
       /\ \A i \in 1 .. k : longer[i] = f[i] /\ f[i] \in rest
       /\ longer \in [1 .. k + 1 -> s]
  BY <1>5, <1>9, <1>10, <1>11
<1>13. Sorted(longer, s, R)
  <2> HIDE DEF longer
  <2>1. \A i, j \in 1 .. k + 1 : i # j => longer[i] # longer[j]
    BY <1>9, <1>10, <1>11, <1>12
  <2>2. ASSUME NEW i \in 1 .. k + 1, NEW j \in 1 .. k + 1, i < j
        PROVE  <<longer[i], longer[j]>> \in R
    <3>1. i \in 1 .. k
      BY <1>9, <2>2
    <3>2. CASE j = k + 1
      BY <1>5, <1>9, <1>12, <3>1, <3>2
    <3>3. CASE j \in 1 .. k
      BY <1>10, <1>12, <2>2, <3>1, <3>3
    <3> QED
      BY <1>11, <3>2, <3>3
  <2> QED
    BY <1>9, <1>12, <2>1, <2>2 DEF Sorted, Order
<1> QED
  BY <1>2, <1>13

\* The rows in an order that gives the chain: by priority, and within a priority by the
\* place of their role in the chain.
Towards(S, place) ==
    {p \in S \X S :
        \/ p[1].priority < p[2].priority
        \/ /\ p[1].priority = p[2].priority
           /\ place[p[1].required_role] <= place[p[2].required_role]}

LEMMA TowardsOrders ==
    ASSUME NEW S, Rows(S), NEW place \in [Required(S) -> Int]
    PROVE  LET R == Towards(S, place)
           IN  /\ \A x, y \in S : <<x, y>> \in R \/ <<y, x>> \in R
               /\ \A x, y, z \in S : <<x, y>> \in R /\ <<y, z>> \in R => <<x, z>> \in R
<1>1. \A x, y \in S : <<x, y>> \in Towards(S, place) <=>
          \/ x.priority < y.priority
          \/ x.priority = y.priority /\ place[x.required_role] <= place[y.required_role]
  BY DEF Towards
<1>2. \A x \in S : x.priority \in Nat /\ place[x.required_role] \in Int
  BY DEF Rows, Required
<1> QED
  BY <1>1, <1>2

LEMMA LoopIsComplete ==
    ASSUME NEW S, Rows(S), NEW n, n = Cardinality(Required(S)),
           NEW chain \in [1 .. n -> Required(S)],
           \A i, j \in 1 .. n :
               i < j => chain[i] # chain[j] /\ ReadNoLater(S, chain[i], chain[j])
    PROVE  \E order : /\ Order(order, S)
                      /\ ByPriority(order, Cardinality(S))
                      /\ Read(order, Cardinality(S)) = chain
<1>1. n \in Nat /\ IsFiniteSet(Required(S)) /\ IsFiniteSet(S)
  BY RequiredFinite DEF Rows
<1>2. \A i, j \in 1 .. n : i # j => chain[i] # chain[j]
  <2> SUFFICES ASSUME NEW i \in 1 .. n, NEW j \in 1 .. n, i # j
               PROVE  chain[i] # chain[j]
    OBVIOUS
  <2>1. i < j \/ j < i
    BY <1>1
  <2> QED
    BY <2>1
<1>3. \A role \in Required(S) : \E i \in 1 .. n : chain[i] = role
  BY <1>1, <1>2, FillsUp
<1>4. PICK place \in [Required(S) -> 1 .. n] : \A role \in Required(S) : chain[place[role]] = role
  <2> DEFINE where == [role \in Required(S) |-> CHOOSE i \in 1 .. n : chain[i] = role]
  <2>1. \A role \in Required(S) : where[role] \in 1 .. n /\ chain[where[role]] = role
    BY <1>3
  <2>2. where \in [Required(S) -> 1 .. n]
    BY <2>1
  <2> QED
    BY <2>1, <2>2
<1>5. \A i \in 1 .. n : place[chain[i]] = i
  <2> SUFFICES ASSUME NEW i \in 1 .. n PROVE place[chain[i]] = i
    OBVIOUS
  <2>1. chain[i] \in Required(S)
    OBVIOUS
  <2>2. place[chain[i]] \in 1 .. n /\ chain[place[chain[i]]] = chain[i]
    BY <1>4, <2>1
  <2> QED
    BY <1>2, <2>2
<1>6. PICK order : Sorted(order, S, Towards(S, place))
  <2>1. place \in [Required(S) -> Int]
    BY <1>1, <1>4
  <2>2. PICK R : R = Towards(S, place)
    OBVIOUS
  <2>3. /\ \A x, y \in S : <<x, y>> \in R \/ <<y, x>> \in R
        /\ \A x, y, z \in S : <<x, y>> \in R /\ <<y, z>> \in R => <<x, z>> \in R
    BY <2>1, <2>2, TowardsOrders
  <2> QED
    BY <1>1, <2>2, <2>3, CanBeSorted
<1>7. PICK m \in Nat : m = Cardinality(S)
  BY <1>1, FS_CardinalityType
<1>8. /\ Order(order, S)
      /\ DOMAIN order = 1 .. m
      /\ \A i \in 1 .. m : /\ order[i] \in S
                           /\ order[i].priority \in Nat
                           /\ order[i].required_role \in Required(S)
      /\ \A r \in S : \E i \in 1 .. m : order[i] = r
  <2>1. /\ Order(order, S)
        /\ DOMAIN order = 1 .. m
        /\ \A i \in 1 .. m : order[i] \in S
    BY <1>6, <1>7 DEF Sorted, Order
  <2>2. \A r \in S : \E i \in 1 .. m : order[i] = r
    <3>1. /\ order \in [1 .. Cardinality(S) -> S]
          /\ \A i, j \in 1 .. Cardinality(S) : i # j => order[i] # order[j]
      BY <2>1 DEF Order
    <3>2. \A r \in S : \E i \in 1 .. Cardinality(S) : order[i] = r
      BY <1>1, <3>1, FillsUp
    <3> QED
      BY <1>7, <3>2
  <2> QED
    BY <2>1, <2>2 DEF Rows, Required
<1>9. \A i, j \in 1 .. m : i < j =>
          \/ order[i].priority < order[j].priority
          \/ /\ order[i].priority = order[j].priority
             /\ place[order[i].required_role] <= place[order[j].required_role]
  <2> SUFFICES ASSUME NEW i \in 1 .. m, NEW j \in 1 .. m, i < j
               PROVE  \/ order[i].priority < order[j].priority
                      \/ /\ order[i].priority = order[j].priority
                         /\ place[order[i].required_role] <= place[order[j].required_role]
    OBVIOUS
  <2>1. <<order[i], order[j]>> \in Towards(S, place)
    BY <1>6, <1>7 DEF Sorted
  <2> QED
    BY <2>1 DEF Towards
<1>10. ByPriority(order, m)
  <2> SUFFICES ASSUME NEW i \in 1 .. m - 1
               PROVE  order[i].priority <= order[i + 1].priority
    BY DEF ByPriority
  <2>1. i \in 1 .. m /\ i + 1 \in 1 .. m /\ i < i + 1
    BY <1>7
  <2> QED
    BY <1>8, <1>9, <2>1
<1>11. PICK read : read = Read(order, m)
  OBVIOUS
<1>12. /\ read \in [1 .. n -> Required(S)]
       /\ \A role \in Required(S) : \E i \in 1 .. n : read[i] = role
       /\ \A i, j \in 1 .. n : i < j => FirstRow(order, read[i]) < FirstRow(order, read[j])
  <2>1. LET found == Read(order, Cardinality(S))
            k == Cardinality(Required(S))
        IN  /\ found \in [1 .. k -> Required(S)]
            /\ \A role \in Required(S) : \E i \in 1 .. k : found[i] = role
            /\ \A i, j \in 1 .. k :
                   i < j => FirstRow(order, found[i]) < FirstRow(order, found[j])
    BY <1>8, LoopEnumerates
  <2> QED
    BY <1>7, <1>11, <2>1
<1>13. \A role \in Required(S) :
           /\ FirstRow(order, role) \in 1 .. m
           /\ order[FirstRow(order, role)].required_role = role
           /\ \A l \in 1 .. m : order[l].required_role = role => FirstRow(order, role) <= l
  <2> SUFFICES ASSUME NEW role \in Required(S)
               PROVE  /\ FirstRow(order, role) \in 1 .. m
                      /\ order[FirstRow(order, role)].required_role = role
                      /\ \A l \in 1 .. m :
                             order[l].required_role = role => FirstRow(order, role) <= l
    OBVIOUS
  <2>1. PICK r \in S : r.required_role = role
    BY DEF Required
  <2>2. PICK k \in 1 .. m : order[k].required_role = role
    BY <1>8, <2>1
  <2>3. LET first == FirstRow(order, order[k].required_role)
        IN  /\ first \in 1 .. m
            /\ order[first].required_role = order[k].required_role
            /\ \A l \in 1 .. m : order[l].required_role = order[k].required_role => first <= l
    BY <1>8, FirstRowIs
  <2> QED
    BY <2>2, <2>3
<1>14. ASSUME NEW i \in 1 .. n, NEW j \in 1 .. n, i < j
       PROVE  FirstRow(order, chain[i]) < FirstRow(order, chain[j])
  <2>1. PICK a \in S : /\ a.required_role = chain[i]
                       /\ \A later \in S :
                              later.required_role = chain[j] => a.priority <= later.priority
    BY <1>14 DEF ReadNoLater
  <2>2. PICK ka \in 1 .. m : order[ka] = a
    BY <1>8
  <2>3. PICK kb \in 1 .. m : kb = FirstRow(order, chain[j]) /\ order[kb].required_role = chain[j]
    BY <1>13
  <2>4. FirstRow(order, chain[i]) \in 1 .. m /\ FirstRow(order, chain[i]) <= ka
    BY <1>13, <2>1, <2>2
  <2>5. chain[i] # chain[j]
    BY <1>14
  <2>6. ~ (kb < ka)
    <3> SUFFICES ASSUME kb < ka PROVE FALSE
      OBVIOUS
    <3>1. order[ka].priority <= order[kb].priority
      BY <1>8, <2>1, <2>2, <2>3
    <3>2. \/ order[kb].priority < order[ka].priority
          \/ place[chain[j]] <= place[chain[i]]
      BY <1>9, <2>1, <2>2, <2>3
    <3>3. order[ka].priority \in Nat /\ order[kb].priority \in Nat
      BY <1>8
    <3>4. place[chain[i]] = i /\ place[chain[j]] = j
      BY <1>5
    <3> QED
      BY <1>14, <3>1, <3>2, <3>3, <3>4
  <2>7. kb # ka
    BY <2>1, <2>2, <2>3, <2>5
  <2> QED
    BY <2>3, <2>4, <2>6, <2>7
<1>15. read = chain
  <2> DEFINE key == [role \in Required(S) |-> FirstRow(order, role)]
  <2>1. key \in [Required(S) -> Int]
    BY <1>7, <1>13
  <2>2. Increasing(chain, n, Required(S), key)
    BY <1>3, <1>14 DEF Increasing
  <2>3. Increasing(read, n, Required(S), key)
    BY <1>12 DEF Increasing
  <2> HIDE DEF key
  <2> QED
    BY <1>1, <2>1, <2>2, <2>3, OneIncreasing
<1> QED
  BY <1>7, <1>8, <1>10, <1>11, <1>15

\* The chains the de-duplicating loop of get_required_approvers_from_matrix may return
\* are those MatrixChains has, for every finite table and whatever order the database
\* gives to rules of equal priority.
LEMMA LoopAgreesOn ==
    ASSUME IsFiniteSet(table), table \subseteq ApprovalRule
    PROVE  LoopAgrees
<1>1. PICK S : S = MatchingRules(table, asked, code)
  OBVIOUS
<1>2. S \subseteq table
  BY <1>1 DEF MatchingRules
<1>3. Rows(S)
  BY <1>2, FS_Subset DEF Rows, ApprovalRule
<1>4. PICK m \in Nat, n \in Nat : m = Cardinality(S) /\ n = Cardinality(Required(S))
  BY <1>3, RequiredFinite, FS_CardinalityType DEF Rows
<1>5. \A order : order \in RowOrders <=> Order(order, S) /\ ByPriority(order, m)
  <2>1. ASSUME NEW order, Order(order, S)
        PROVE  Len(order) = m
    BY <1>4, <2>1 DEF Order
  <2>2. \A order : order \in SetToSeqs(S) <=> Order(order, S)
    BY Zenon DEF SetToSeqs, Order
  <2> QED
    BY <1>1, <2>1, <2>2 DEF RowOrders, ByPriority
<1>6. \A chain : chain \in MatrixChains(table, asked, code) <=>
          /\ chain \in [1 .. n -> Required(S)]
          /\ \A i, j \in 1 .. n :
                 i < j => chain[i] # chain[j] /\ ReadNoLater(S, chain[i], chain[j])
  <2>1. MatrixChains(table, asked, code) =
            {chain \in [1 .. n -> Required(S)] :
                \A i, j \in 1 .. n :
                    i < j => chain[i] # chain[j] /\ ReadNoLater(S, chain[i], chain[j])}
    <3>1. MatrixChains(table, asked, code) =
              {chain \in [1 .. Cardinality(Required(S)) -> Required(S)] :
                  \A i, j \in 1 .. Cardinality(Required(S)) :
                      i < j => chain[i] # chain[j] /\ ReadNoLater(S, chain[i], chain[j])}
      BY <1>1 DEF MatrixChains, Required
    <3>2. Cardinality(Required(S)) = n
      BY <1>4
    <3> QED
      BY <3>1, <3>2
  <2> QED
    BY <2>1, Zenon
<1>7. ASSUME NEW order \in RowOrders
      PROVE  Loop(order) = Read(order, m)
  <2>1. order \in [1 .. m -> S]
    BY <1>4, <1>5 DEF Order
  <2> QED
    BY <2>1, LoopUnfolds
<1>8. ASSUME NEW order \in RowOrders
      PROVE  Loop(order) \in MatrixChains(table, asked, code)
  <2>1. Order(order, S) /\ ByPriority(order, Cardinality(S))
    BY <1>4, <1>5
  <2>2. /\ Read(order, m) \in [1 .. n -> Required(S)]
        /\ \A i, j \in 1 .. n :
               i < j => /\ Read(order, m)[i] # Read(order, m)[j]
                        /\ ReadNoLater(S, Read(order, m)[i], Read(order, m)[j])
    BY <1>3, <1>4, <2>1, LoopIsSound
  <2> QED
    BY <1>6, <1>7, <2>2
<1>9. ASSUME NEW chain \in MatrixChains(table, asked, code)
      PROVE  \E order \in RowOrders : Loop(order) = chain
  <2>1. PICK order : Order(order, S) /\ ByPriority(order, m) /\ Read(order, m) = chain
    BY <1>3, <1>4, <1>6, LoopIsComplete
  <2> QED
    BY <1>5, <1>7, <2>1
<1> QED
  BY <1>8, <1>9 DEF LoopAgrees

---------------------------------------------------------------------------
\* The seeded tiers.

\* A chain of a tier: no role twice, and COST_CONTROL among them.
TierRoles(roles) ==
    /\ roles \in Seq(Role)
    /\ \A i, j \in 1 .. Len(roles) : i # j => roles[i] # roles[j]
    /\ \E i \in 1 .. Len(roles) : roles[i] = "COST_CONTROL"

\* The rules of a tier in force alone give its roles, in the order they are listed.
LEMMA TierGivesItsRoles ==
    ASSUME NEW roles, TierRoles(roles), NEW min, NEW max,
           MatchingRules(table, asked, code) = Tier(roles, min, max)
    PROVE  SubmissionChains(table, "regular", asked, code) = {roles}
<1>1. PICK S, n : S = Tier(roles, min, max) /\ n = Len(roles)
  OBVIOUS
<1>2. /\ n \in Nat /\ roles \in [1 .. n -> Role] /\ DOMAIN roles = 1 .. n
      /\ \A i, j \in 1 .. n : i # j => roles[i] # roles[j]
  BY <1>1 DEF TierRoles
<1>3. /\ \A r \in S : \E i \in 1 .. n : r.required_role = roles[i] /\ r.priority = i
      /\ \A i \in 1 .. n : \E r \in S : r.required_role = roles[i] /\ r.priority = i
  <2> DEFINE rule == [i \in 1 .. n |->
                 [required_role |-> roles[i], min_amount |-> min, max_amount |-> max,
                  category |-> NULL, priority |-> i]]
  <2>1. S = {rule[i] : i \in 1 .. n}
    BY <1>1 DEF Tier
  <2>2. \A i \in 1 .. n : rule[i].required_role = roles[i] /\ rule[i].priority = i
    OBVIOUS
  <2> HIDE DEF rule
  <2>3. \A i \in 1 .. n : rule[i] \in S
    BY <2>1
  <2> QED
    BY <2>1, <2>2, <2>3
<1>4. Required(S) \subseteq Role /\ \A role \in Required(S) : \E i \in 1 .. n : roles[i] = role
  <2>1. \A role \in Required(S) : \E i \in 1 .. n : roles[i] = role
    BY <1>3 DEF Required
  <2> QED
    BY <1>2, <2>1
<1>5. roles \in [1 .. n -> Required(S)]
  <2>1. \A i \in 1 .. n : roles[i] \in Required(S)
    BY <1>3 DEF Required
  <2> QED
    BY <1>2, <2>1
<1>6. IsFiniteSet(Required(S)) /\ Cardinality(Required(S)) = n
  <2>1. roles \in Bijection(1 .. n, Required(S))
    BY <1>2, <1>4, <1>5 DEF Bijection, Injection, Surjection, IsInjective
  <2>2. Cardinality(Required(S)) = n
    BY <1>2, <2>1, FS_CountingElements DEF ExistsBijection
  <2> QED
    BY <1>4, <2>2, RoleFinite, FS_Subset
<1> DEFINE Resolves(chain) ==
        /\ chain \in [1 .. n -> Required(S)]
        /\ \A i, j \in 1 .. n :
               i < j => chain[i] # chain[j] /\ ReadNoLater(S, chain[i], chain[j])
<1>7. \A chain : chain \in MatrixChains(table, asked, code) <=> Resolves(chain)
  <2>1. MatrixChains(table, asked, code) =
            {chain \in [1 .. Cardinality(Required(S)) -> Required(S)] :
                \A i, j \in 1 .. Cardinality(Required(S)) :
                    i < j => chain[i] # chain[j] /\ ReadNoLater(S, chain[i], chain[j])}
    BY <1>1 DEF MatrixChains, Required
  <2>2. Cardinality(Required(S)) = n
    BY <1>6
  <2>3. MatrixChains(table, asked, code) =
            {chain \in [1 .. n -> Required(S)] :
                \A i, j \in 1 .. n :
                    i < j => chain[i] # chain[j] /\ ReadNoLater(S, chain[i], chain[j])}
    BY <2>1, <2>2
  <2> QED
    BY <2>3, Zenon
<1>8. Resolves(roles)
  <2> SUFFICES ASSUME NEW i \in 1 .. n, NEW j \in 1 .. n, i < j
               PROVE  roles[i] # roles[j] /\ ReadNoLater(S, roles[i], roles[j])
    BY <1>5
  <2>1. i # j /\ roles[i] # roles[j]
    BY <1>2
  <2>2. PICK r \in S : r.required_role = roles[i] /\ r.priority = i
    BY <1>3
  <2>3. \A later \in S : later.required_role = roles[j] => later.priority = j
    BY <1>2, <1>3
  <2>4. i <= j
    BY <1>2
  <2> QED
    BY <2>1, <2>2, <2>3, <2>4 DEF ReadNoLater
<1>9. ASSUME NEW chain, Resolves(chain)
      PROVE  chain = roles
  <2> DEFINE rank == [role \in Required(S) |-> CHOOSE i \in 1 .. n : roles[i] = role]
  <2>1. \A role \in Required(S) : rank[role] \in 1 .. n /\ roles[rank[role]] = role
    BY <1>4
  <2>2. rank \in [Required(S) -> Int]
    BY <1>2, <2>1
  <2> HIDE DEF rank
  <2>3. \A i \in 1 .. n : rank[roles[i]] = i
    <3> SUFFICES ASSUME NEW i \in 1 .. n PROVE rank[roles[i]] = i
      OBVIOUS
    <3>1. roles[i] \in Required(S)
      BY <1>5
    <3> QED
      BY <1>2, <2>1, <3>1
  <2>4. \A r \in S : r.priority = rank[r.required_role] /\ r.required_role \in Required(S)
    BY <1>3, <2>3 DEF Required
  <2>5. \A i, j \in 1 .. n : i < j => rank[chain[i]] < rank[chain[j]]
    <3> SUFFICES ASSUME NEW i \in 1 .. n, NEW j \in 1 .. n, i < j
                 PROVE  rank[chain[i]] < rank[chain[j]]
      OBVIOUS
    <3>1. chain[i] # chain[j] /\ chain[i] \in Required(S) /\ chain[j] \in Required(S)
      BY <1>9
    <3>2. PICK r \in S : /\ r.required_role = chain[i]
                         /\ \A later \in S :
                                later.required_role = chain[j] => r.priority <= later.priority
      BY <1>9 DEF ReadNoLater
    <3>3. PICK later \in S : later.required_role = chain[j]
      BY <3>1 DEF Required
    <3>4. rank[chain[i]] <= rank[chain[j]]
      BY <2>4, <3>2, <3>3
    <3>5. rank[chain[i]] # rank[chain[j]]
      BY <2>1, <3>1
    <3> QED
      BY <2>2, <3>1, <3>4, <3>5
  <2>6. \A i, j \in 1 .. n : i # j => chain[i] # chain[j]
    <3> SUFFICES ASSUME NEW i \in 1 .. n, NEW j \in 1 .. n, i # j
                 PROVE  chain[i] # chain[j]
      OBVIOUS
    <3>1. i < j \/ j < i
      BY <1>2
    <3> QED
      BY <1>9, <3>1
  <2>7. \A role \in Required(S) : \E i \in 1 .. n : chain[i] = role
    <3>1. /\ chain \in [1 .. Cardinality(Required(S)) -> Required(S)]
          /\ \A i, j \in 1 .. Cardinality(Required(S)) : i # j => chain[i] # chain[j]
      BY <1>6, <1>9, <2>6
    <3>2. \A role \in Required(S) : \E i \in 1 .. Cardinality(Required(S)) : chain[i] = role
      BY <1>6, <3>1, FillsUp
    <3> QED
      BY <1>6, <3>2
  <2>8. Increasing(chain, n, Required(S), rank)
    BY <1>9, <2>5, <2>7 DEF Increasing
  <2>9. Increasing(roles, n, Required(S), rank)
    BY <1>4, <1>5, <2>3 DEF Increasing
  <2> QED
    BY <1>2, <2>2, <2>8, <2>9, OneIncreasing
<1> HIDE DEF Resolves
<1>10. MatrixChains(table, asked, code) = {roles}
  BY <1>7, <1>8, <1>9
<1>11. "COST_CONTROL" \in RolesIn(roles)
  BY DEF TierRoles, RolesIn
<1> QED
  BY <1>10, <1>11 DEF SubmissionChains

\* A rule of a tier matches the amounts between the bounds of the tier, and no others.
LEMMA TierMatches ==
    ASSUME NEW roles, NEW min, NEW max, NEW rule \in Tier(roles, min, max)
    PROVE  Matches(rule, asked, code) <=> min <= asked /\ (max = NULL \/ max >= asked)
  BY DEF Tier, Matches

Tier1 == <<"COST_CONTROL">>
Tier2 == <<"COST_CONTROL", "PM">>
Tier3 == <<"COST_CONTROL", "PM", "FINANCE">>
Tier4 == <<"COST_CONTROL", "PM", "FINANCE", "MD">>

LEMMA TiersTyped ==
    /\ TierRoles(Tier1) /\ TierRoles(Tier2) /\ TierRoles(Tier3) /\ TierRoles(Tier4)
<1>1. {"COST_CONTROL", "PM", "FINANCE", "MD"} \subseteq Role
  BY DEF Role
<1>2. TierRoles(Tier1)
  BY <1>1 DEF TierRoles, Tier1
<1>3. TierRoles(Tier2)
  BY <1>1 DEF TierRoles, Tier2
<1>4. TierRoles(Tier3)
  BY <1>1 DEF TierRoles, Tier3
<1>5. TierRoles(Tier4)
  BY <1>1 DEF TierRoles, Tier4
<1> QED
  BY <1>2, <1>3, <1>4, <1>5

\* The seeded rules give each amount the chain of one tier: no amount falls between two
\* tiers or into two (seed_approval_rules).
LEMMA SeededTiersHold ==
    ASSUME asked \in Nat
    PROVE  SeededTiers
<1> SUFFICES ASSUME table = SeedRules
             PROVE  SubmissionChains(table, "regular", asked, code) =
                        {CASE asked <= 5000000 -> Tier1
                           [] asked > 5000000 /\ asked <= 50000000 -> Tier2
                           [] asked > 50000000 /\ asked <= 200000000 -> Tier3
                           [] OTHER -> Tier4}
  BY DEF SeededTiers, Tier1, Tier2, Tier3, Tier4
<1> DEFINE A == Tier(Tier1, 0, 5000000)
           B == Tier(Tier2, 5000001, 50000000)
           C == Tier(Tier3, 50000001, 200000000)
           D == Tier(Tier4, 200000001, NULL)
<1>1. table = A \cup B \cup C \cup D
  BY DEF SeedRules, Tier1, Tier2, Tier3, Tier4
<1>2. 5000000 # NULL /\ 50000000 # NULL /\ 200000000 # NULL
  BY NullAssumption
<1>3. /\ \A rule \in A : Matches(rule, asked, code) <=> asked <= 5000000
      /\ \A rule \in B : Matches(rule, asked, code) <=> asked > 5000000 /\ asked <= 50000000
      /\ \A rule \in C : Matches(rule, asked, code) <=>
             asked > 50000000 /\ asked <= 200000000
      /\ \A rule \in D : Matches(rule, asked, code) <=> asked > 200000000
  BY <1>2, TierMatches
<1>4. MatchingRules(table, asked, code) =
          {rule \in A : Matches(rule, asked, code)}
          \cup {rule \in B : Matches(rule, asked, code)}
          \cup {rule \in C : Matches(rule, asked, code)}
          \cup {rule \in D : Matches(rule, asked, code)}
  BY <1>1 DEF MatchingRules
<1> HIDE DEF A, B, C, D
<1>5. CASE asked <= 5000000
  <2>1. MatchingRules(table, asked, code) = A
    BY <1>3, <1>4, <1>5
  <2> QED
    BY <1>5, <2>1, TiersTyped, TierGivesItsRoles DEF A
<1>6. CASE asked > 5000000 /\ asked <= 50000000
  <2>1. MatchingRules(table, asked, code) = B
    BY <1>3, <1>4, <1>6
  <2> QED
    BY <1>6, <2>1, TiersTyped, TierGivesItsRoles DEF B
<1>7. CASE asked > 50000000 /\ asked <= 200000000
  <2>1. MatchingRules(table, asked, code) = C
    BY <1>3, <1>4, <1>7
  <2> QED
    BY <1>7, <2>1, TiersTyped, TierGivesItsRoles DEF C
<1>8. CASE asked > 200000000
  <2>1. MatchingRules(table, asked, code) = D
    BY <1>3, <1>4, <1>8
  <2> QED
    BY <1>8, <2>1, TiersTyped, TierGivesItsRoles DEF D
<1> QED
  BY <1>5, <1>6, <1>7, <1>8

---------------------------------------------------------------------------
\* The rule table as administrators edit it.

TableSound ==
    /\ IsFiniteSet(table)
    /\ table \subseteq ApprovalRule
    /\ asked \in Nat

LEMMA TierSound ==
    ASSUME NEW roles, TierRoles(roles), NEW min \in Nat, NEW max \in Nat \cup {NULL}
    PROVE  /\ IsFiniteSet(Tier(roles, min, max))
           /\ Tier(roles, min, max) \subseteq ApprovalRule
<1> DEFINE rule == [i \in 1 .. Len(roles) |->
               [required_role |-> roles[i], min_amount |-> min, max_amount |-> max,
                category |-> NULL, priority |-> i]]
<1>1. Len(roles) \in Nat /\ \A i \in 1 .. Len(roles) : roles[i] \in Role
  BY DEF TierRoles
<1>2. Tier(roles, min, max) = {rule[i] : i \in 1 .. Len(roles)}
  BY DEF Tier
<1>3. rule \in Surjection(1 .. Len(roles), Tier(roles, min, max))
  BY <1>2 DEF Surjection
<1>4. IsFiniteSet(1 .. Len(roles))
  BY <1>1, FS_Interval
<1>5. \A i \in 1 .. Len(roles) : rule[i] \in ApprovalRule
  BY <1>1 DEF ApprovalRule
<1> HIDE DEF rule
<1> QED
  BY <1>2, <1>3, <1>4, <1>5, FS_Surjection

LEMMA SeedSound == IsFiniteSet(SeedRules) /\ SeedRules \subseteq ApprovalRule
<1> DEFINE Sound(S) == IsFiniteSet(S) /\ S \subseteq ApprovalRule
<1>1. \A roles : \A min \in Nat, max \in Nat \cup {NULL} :
          TierRoles(roles) => Sound(Tier(roles, min, max))
  BY TierSound
<1>2. \A roles : \A min \in Nat : TierRoles(roles) => Sound(Tier(roles, min, NULL))
  BY <1>1
<1> HIDE DEF Sound
<1>3. Sound(Tier(Tier1, 0, 5000000))
  BY <1>1, TiersTyped, SMT
<1>4. Sound(Tier(Tier2, 5000001, 50000000))
  BY <1>1, TiersTyped, SMT
<1>5. Sound(Tier(Tier3, 50000001, 200000000))
  BY <1>1, TiersTyped, SMT
<1>6. Sound(Tier(Tier4, 200000001, NULL))
  BY <1>2, TiersTyped, SMT
<1>7. \A P, Q : Sound(P) /\ Sound(Q) => Sound(P \cup Q)
  BY FS_Union DEF Sound
<1>8. \A P, Q, R, U : Sound(P) /\ Sound(Q) /\ Sound(R) /\ Sound(U)
                       => Sound(P \cup Q \cup R \cup U)
  BY <1>7
<1>9. SeedRules = Tier(Tier1, 0, 5000000) \cup Tier(Tier2, 5000001, 50000000)
                    \cup Tier(Tier3, 50000001, 200000000)
                    \cup Tier(Tier4, 200000001, NULL)
  BY SMT DEF SeedRules, Tier1, Tier2, Tier3, Tier4
<1>10. Sound(SeedRules)
  BY <1>3, <1>4, <1>5, <1>6, <1>8, <1>9, SMT
<1> QED
  BY <1>10 DEF Sound

\* Every amount and category resolves to one chain as documented: on every table that
\* edits of the seeded one lead to the loop of get_required_approvers_from_matrix returns
\* what the matrix says, and the seeded table gives its four tiers, for every amount.
THEOREM MatrixResolvedHolds == MatrixSpec => []MatrixResolved
<1>1. MatrixInit => TableSound
  BY SeedSound, AskedAssumption DEF MatrixInit, TableSound
<1>2. TableSound /\ [MatrixNext]_matrixVars => TableSound'
  <2> SUFFICES ASSUME TableSound, [MatrixNext]_matrixVars
               PROVE  TableSound'
    OBVIOUS
  <2>1. CASE Ask
    BY <2>1, AskedAssumption DEF Ask, TableSound
  <2>2. ASSUME NEW rule \in SeedRules \cup Extra, EditTable(rule)
        PROVE  TableSound'
    <3>1. rule \in ApprovalRule
      BY SeedSound, ExtraAssumption
    <3>2. table' = table \ {rule} \/ table' = table \cup {rule}
      BY <2>2 DEF EditTable
    <3>3. IsFiniteSet(table \ {rule}) /\ IsFiniteSet(table \cup {rule})
      BY FS_AddElement, FS_RemoveElement DEF TableSound
    <3>4. asked' = asked
      BY <2>2 DEF EditTable
    <3> QED
      BY <3>1, <3>2, <3>3, <3>4 DEF TableSound
  <2>3. CASE UNCHANGED matrixVars
    BY <2>3 DEF matrixVars, TableSound
  <2> QED
    BY <2>1, <2>2, <2>3 DEF MatrixNext
<1>3. TableSound => MatrixResolved
  BY LoopAgreesOn, SeededTiersHold DEF TableSound, MatrixResolved
<1> QED
  BY <1>1, <1>2, <1>3, PTL DEF MatrixSpec
===============================================================================
