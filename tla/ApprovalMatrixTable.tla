-------------------------- MODULE ApprovalMatrixTable --------------------------
(***************************************************************************)
(* The rule table as the seed script fills it and the administrators edit  *)
(* it, and the loop of get_required_approvers_from_matrix run on it: does  *)
(* the loop return what ApprovalMatrix says, and do the seeded rules give  *)
(* the tiers the documentation prints?                                     *)
(***************************************************************************)
EXTENDS ApprovalMatrix, SequencesExt

CONSTANTS
    Asked,         \* amounts asked about, in hundredths
    Extra,         \* rules an administrator may add to the seeded ones
    MaxEdits       \* bound: rules that differ from the seeded table

ASSUME AskedAssumption == Asked \subseteq Nat
ASSUME ExtraAssumption == Extra \subseteq ApprovalRule

VARIABLES
    table,         \* active rows of approval_rules
    asked, code    \* amount and category of the expense whose chain is asked for

matrixVars == <<table, asked, code>>

Tier(roles, min, max) ==
    {[required_role |-> roles[i], min_amount |-> min, max_amount |-> max,
      category |-> NULL, priority |-> i] : i \in 1 .. Len(roles)}

\* The rules of scripts/seed.py.
SeedRules ==
    Tier(<<"COST_CONTROL">>, 0, 5000000)
    \cup Tier(<<"COST_CONTROL", "PM">>, 5000001, 50000000)
    \cup Tier(<<"COST_CONTROL", "PM", "FINANCE">>, 50000001, 200000000)
    \cup Tier(<<"COST_CONTROL", "PM", "FINANCE", "MD">>, 200000001, NULL)

MatrixInit ==
    /\ table = SeedRules
    /\ asked \in Asked
    /\ code \in Category

\* A rule is added or (re)activated, deactivated or deleted; an edit is two of these.
EditTable(rule) ==
    /\ table' = IF rule \in table THEN table \ {rule} ELSE table \cup {rule}
    /\ Cardinality((table' \ SeedRules) \cup (SeedRules \ table')) <= MaxEdits
    /\ UNCHANGED <<asked, code>>

\* Another expense is submitted.
Ask ==
    /\ asked' \in Asked
    /\ code' \in Category
    /\ UNCHANGED table

MatrixNext == Ask \/ \E rule \in SeedRules \cup Extra : EditTable(rule)

MatrixSpec == MatrixInit /\ [][MatrixNext]_matrixVars

\* The orders in which the query may return its rows: ORDER BY priority alone.
RowOrders ==
    {order \in SetToSeqs(MatchingRules(table, asked, code)) :
        \A i \in 1 .. Len(order) - 1 : order[i].priority <= order[i + 1].priority}

\* Mutant: the loop without its "seen" set.
LoopWithRepeats(order) ==
    FoldLeft(LAMBDA chain, rule : Append(chain, rule.required_role), <<>>, order)

\* The loop: append the role of each row unless it was seen.
Loop(order) ==
    FoldLeft(LAMBDA chain, rule : IF rule.required_role \in RolesIn(chain) THEN chain
                                  ELSE Append(chain, rule.required_role),
             <<>>, order)

---------------------------------------------------------------------------
\* The chains the loop may return are the chains of ApprovalMatrix, whatever order
\* the database gives to rules of equal priority: no role twice, none missing, each
\* at the place of its earliest rule.
LoopAgrees == {Loop(order) : order \in RowOrders} = MatrixChains(table, asked, code)

\* The seeded rules give exactly the tiers seed_approval_rules documents, at the first
\* and the last amount of each tier: no amount falls between two tiers or into two.
SeededTiers ==
    table = SeedRules =>
        SubmissionChains(table, "regular", asked, code) =
            {CASE asked <= 5000000 -> <<"COST_CONTROL">>
               [] asked > 5000000 /\ asked <= 50000000 -> <<"COST_CONTROL", "PM">>
               [] asked > 50000000 /\ asked <= 200000000 ->
                      <<"COST_CONTROL", "PM", "FINANCE">>
               [] OTHER -> <<"COST_CONTROL", "PM", "FINANCE", "MD">>}

\* Every amount and category resolves to one chain as documented: the loop agrees with
\* the abstract resolution on every table, and the seeded table gives its tiers.
MatrixResolved == LoopAgrees /\ SeededTiers
================================================================================
