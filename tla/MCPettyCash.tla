------------------------------ MODULE MCPettyCash -------------------------------
(* One report of up to two lines, edited by two workers. *)
EXTENDS PettyCash, TLC

CONSTANTS w1, w2, p1, l1, l2, md

MCRoleOf == md :> "MD"

MCSymmetry == Permutations(Worker) \cup Permutations(Line)
================================================================================
