---------------------------- MODULE MCProjectLedger -----------------------------
(* Two workers on one invoice and one stock item of up to two projects. *)
EXTENDS ProjectLedger, TLC

CONSTANTS w1, w2, p1, p2, r1, i1, md

MCRoleOf == md :> "MD"

MCSymmetry == Permutations(Worker) \cup Permutations(ProjectCode)
================================================================================
