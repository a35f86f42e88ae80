----------------------------- MODULE MCTimekeeping -----------------------------
(* Three days on both sides of a new year, a balance of one day a type and year. *)
EXTENDS Timekeeping, TLC

CONSTANTS w1, w2, c1, c2, hr, md

MCRoleOf == hr :> "HR" @@ md :> "MD"

MCYearOf == [d \in Day |-> IF d <= 2 THEN 1 ELSE 2]

MCDates == {<<1, 1>>, <<2, 3>>}

MCLeaveType ==
    [annual |-> [max_days |-> 1, requires_approval |-> TRUE, requires_doctor_cert |-> FALSE,
                 exempt |-> FALSE],
     sick |-> [max_days |-> 1, requires_approval |-> FALSE, requires_doctor_cert |-> TRUE,
               exempt |-> FALSE]]

MCSymmetry == Permutations(Worker) \cup Permutations(Certificate)
================================================================================
