------------------------------- MODULE Documents -------------------------------
(***************************************************************************)
(* Letters and operational records, by the same workers.                   *)
(***************************************************************************)
EXTENDS OperationalRecords

\* Bound: what a behaviour is about.  Letters and records share no row; edits of a record
\* are left to behaviours without files, and long histories too.
VARIABLE subject

vars == <<legalVars, recordVars, request, audited, subject>>

Init ==
    /\ LegalInit
    /\ RecordInit
    /\ request = [w \in Worker |-> Idle]
    /\ audited = 0
    /\ subject \in {"letters", "records", "files"}

Next ==
    /\ \/ subject = "letters" /\ LegalNext /\ UNCHANGED recordVars
       \/ subject = "records" /\ RecordNext
       \/ subject = "files" /\ FileNext
       \/ \E w \in Worker : Rollback(w)
    /\ UNCHANGED subject

Spec == Init /\ [][Next]_vars
================================================================================
