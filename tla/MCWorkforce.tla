------------------------------ MODULE MCWorkforce ------------------------------
(* Two accounts, at the start two Super Admins, one with an MD, or one alone. *)
EXTENDS Workforce, TLC

CONSTANTS w1, w2, ani, budi, e1, e2, a1, a2, i1, i2, r1, r2, p1, p2, s1, s2

MCPreset == [SUPER_ADMIN |-> {"dashboard"}, MD |-> {"dashboard"}, STAFF |-> {}]

MCStaffs ==
    {ani :> "SUPER_ADMIN" @@ budi :> "SUPER_ADMIN",
     ani :> "SUPER_ADMIN" @@ budi :> "MD",
     ani :> "SUPER_ADMIN"}

MCSymmetry == Permutations(Worker) \cup Permutations(Employee) \cup Permutations(Applicant)
              \cup Permutations(Interview) \cup Permutations(ChangeRequest)
================================================================================
