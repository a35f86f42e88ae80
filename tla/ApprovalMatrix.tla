---------------------------- MODULE ApprovalMatrix ----------------------------
(***************************************************************************)
(* The role vocabulary of the ERP, the aliases between roles, and the      *)
(* resolution of an approval chain from the configurable rule table.       *)
(*                                                                         *)
(* Sources: app/models.py (RoleName, ROLE_ALIASES, ApprovalRule),          *)
(* app/dependencies.py (get_required_approvers_from_matrix) and            *)
(* app/expense_workflow.py (build_submission_chain, role_can_act,          *)
(* role_can_reject).                                                       *)
(***************************************************************************)
EXTENDS Naturals, Sequences, FiniteSets

CONSTANT NULL          \* SQL NULL / Python None

Role == {"SUPER_ADMIN", "MD", "PM", "PROJECT_CONTROL", "COST_CONTROL",
         "FINANCE", "GA", "HR", "STAFF", "WORKER"}

Category == {"Direct", "Site", "Personnel", "Overhead", "Other", "Reimbursement"}

ASSUME NullAssumption == NULL \notin Role /\ NULL \notin Category /\ NULL \notin Nat

\* A role acts as itself and as the role it aliases to (HR->GA, PROJECT_CONTROL->PM).
EffectiveRoles(role) ==
    {role} \cup (IF role = "HR" THEN {"GA"} ELSE {})
           \cup (IF role = "PROJECT_CONTROL" THEN {"PM"} ELSE {})

(***************************************************************************)
(* A row of the approval_rules table.  max_amount = NULL: no upper bound;  *)
(* category = NULL: every cost code category.                              *)
(***************************************************************************)
ApprovalRule ==
    [required_role : Role, min_amount : Nat, max_amount : Nat \cup {NULL},
     category : Category \cup {NULL}, priority : Nat]

\* The WHERE clause of get_required_approvers_from_matrix: both bounds inclusive.
Matches(rule, amount, category) ==
    /\ rule.min_amount <= amount
    /\ rule.max_amount = NULL \/ rule.max_amount >= amount
    /\ rule.category = NULL \/ rule.category = category

MatchingRules(rules, amount, category) ==
    {rule \in rules : Matches(rule, amount, category)}

\* role stands before other when one of its rules is read no later than every
\* rule of other: ORDER BY priority, duplicates dropped after the first.
ReadNoLater(rules, role, other) ==
    \E rule \in rules :
        /\ rule.required_role = role
        /\ \A later \in rules :
               later.required_role = other => rule.priority <= later.priority

(***************************************************************************)
(* The chains the matrix may resolve to.  Rules of equal priority come     *)
(* back from PostgreSQL in no fixed order, so this is a set: one chain for *)
(* every order of the matching rules that respects their priorities.       *)
(* ApprovalMatrixTable compares it with the loop of the code.               *)
(***************************************************************************)
MatrixChains(rules, amount, category) ==
    LET matching == MatchingRules(rules, amount, category)
        required == {rule.required_role : rule \in matching}
    IN  {chain \in [1 .. Cardinality(required) -> required] :
            \A i, j \in 1 .. Cardinality(required) :
                i < j => /\ chain[i] # chain[j]
                         /\ ReadNoLater(matching, chain[i], chain[j])}

RolesIn(chain) == {chain[i] : i \in 1 .. Len(chain)}

ReimbursementChain == <<"GA", "COST_CONTROL", "FINANCE">>

\* build_submission_chain
SubmissionChains(rules, expense_type, amount, category) ==
    IF expense_type = "reimbursement"
    THEN {ReimbursementChain}
    ELSE {IF "COST_CONTROL" \in RolesIn(chain) THEN chain
          ELSE <<"COST_CONTROL">> \o chain
             : chain \in MatrixChains(rules, amount, category)}

\* role_can_act: the expected role, an alias of it, or SUPER_ADMIN.
RoleCanAct(role, expected) ==
    role = "SUPER_ADMIN" \/ expected \in EffectiveRoles(role)

\* role_can_reject: any approver of the chain, SUPER_ADMIN or FINANCE.
RoleCanReject(role, chain) ==
    EffectiveRoles(role) \cap (RolesIn(chain) \cup {"SUPER_ADMIN", "FINANCE"}) # {}
===============================================================================
