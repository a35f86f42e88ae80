------------------------------- MODULE MCPayroll -------------------------------
EXTENDS Payroll, TLC

CONSTANTS w1, w2, hr, e1

MCRoleOf == hr :> "MD"
MCPtkpStatus == e1 :> "K/1"
MCJoined == e1 :> 6
MCStructure == {{[type |-> "BASIC", taxable |-> TRUE, amount |-> 60000000],
                 [type |-> "ALLOWANCE", taxable |-> FALSE, amount |-> 15000000]}}
MCOvertime == {[weekday |-> 2, weekend |-> 3, holiday |-> 0, approved |-> 4]}
MCCalculation == {[method |-> "NETTO", include_thr |-> FALSE],
                  [method |-> "GROSS_UP", include_thr |-> TRUE]}
MCAdjustment == {[gross |-> 90000000, thr |-> 30000000, method |-> NULL]}

MCSymmetry == Permutations(Worker)
================================================================================
