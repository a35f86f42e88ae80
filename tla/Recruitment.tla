------------------------------ MODULE Recruitment ------------------------------
(***************************************************************************)
(* Recruitment and onboarding (app/routers/hris_recruitment.py), up to the *)
(* employee and the account a hired applicant gets.  The handlers that     *)
(* change an applicant or its interviews lock the applicant's row.         *)
(***************************************************************************)
EXTENDS Personnel

CONSTANTS
    Applicant,     \* ids of hris_applicants
    Interview,     \* ids of hris_interviews
    Task           \* DEFAULT_TASKS

ASSUME RecruitmentAssumption == NULL \notin Applicant \cup Interview

VARIABLES
    posting,       \* the status of the job posting, or NULL
    applicant,     \* [Applicant -> row, or NULL]
    interview,     \* [Interview -> row, or NULL]
    onboarding     \* [Applicant -> completed tasks, or NULL without a checklist]

recruitmentVars == <<posting, applicant, interview, onboarding>>

PostingStatus == {"OPEN", "CLOSED", "ON_HOLD"}
ApplicantStage == {"RECEIVED", "SCREENING", "INTERVIEW", "OFFER", "HIRED", "REJECTED"}
InterviewResult == {"PENDING", "PASS", "FAIL", "HOLD"}

\* Columns.
ApplicantRow ==
    [email : User \cup {NULL}, stage : ApplicantStage, employee_id : Employee \cup {NULL}]
InterviewRow == [applicant_id : Applicant, result : InterviewResult]

\* A checklist: the tasks that are done.
OnboardingTask == SUBSET Task

ASSUME ApplicantRowAssumption ==
    /\ NULL \notin ApplicantRow
    /\ NULL \notin InterviewRow
    /\ \A tasks \in OnboardingTask : tasks # NULL

_HR_ROLES == {"SUPER_ADMIN", "MD", "GA", "HR"}
_MGR_ROLES == _HR_ROLES \cup {"PM", "PROJECT_CONTROL"}

\* The commits of recruitment need no bound: its rows are few and only move forward.
Managed == StaffOf(_MGR_ROLES) # {} /\ UNCHANGED audited

Applied == {a \in Applicant : applicant[a] # NULL}
Passed(a) == {i \in Interview : interview[i] = [applicant_id |-> a, result |-> "PASS"]}
Waiting(a) == {i \in Interview : interview[i] = [applicant_id |-> a, result |-> "PENDING"]}

---------------------------------------------------------------------------
CreatePosting ==
    /\ Managed
    /\ posting = NULL
    /\ posting' = "OPEN"
    /\ UNCHANGED <<accountVars, personnelVars, request, applicant, interview, onboarding>>

\* update_posting: any status may follow any other.
UpdatePosting ==
    /\ Managed
    /\ posting # NULL
    /\ \E status \in PostingStatus : posting' = status
    /\ UNCHANGED <<accountVars, personnelVars, request, applicant, interview, onboarding>>

\* create_applicant loads an open posting.
Apply(w, a) ==
    /\ StaffOf(_MGR_ROLES) # {}
    /\ request[w] = Idle
    /\ applicant[a] = NULL
    /\ posting = "OPEN"
    /\ request' = [request EXCEPT ![w] = [op |-> "apply", applicant |-> a]]
    /\ UNCHANGED <<accountVars, personnelVars, recruitmentVars, audited>>

\* It commits whatever became of the posting.
CommitApplicant(w) ==
    /\ request[w].op = "apply"
    /\ applicant[request[w].applicant] = NULL
    /\ \E email \in User \cup {NULL} :
           applicant' = [applicant EXCEPT ![request[w].applicant] =
               [email |-> email, stage |-> "RECEIVED", employee_id |-> NULL]]
    /\ request' = Finished(w)
    /\ UNCHANGED <<accountVars, personnelVars, audited, posting, interview, onboarding>>

allowed_transitions ==
    [RECEIVED |-> {"SCREENING", "REJECTED"},
     SCREENING |-> {"INTERVIEW", "REJECTED"},
     INTERVIEW |-> {"OFFER", "REJECTED"},
     OFFER |-> {"REJECTED"},
     HIRED |-> {},
     REJECTED |-> {}]

\* Mutant: any interview will do.
MayMoveInterviewed(a, stage) ==
    /\ stage \in allowed_transitions[applicant[a].stage]
    /\ stage = "OFFER" => \E i \in Interview : interview[i] # NULL /\ interview[i].applicant_id = a

\* An offer takes a passed interview.
MayMove(a, stage) ==
    /\ stage \in allowed_transitions[applicant[a].stage]
    /\ stage = "OFFER" => Passed(a) # {}

UpdateStage(a) ==
    /\ Managed
    /\ \E stage \in ApplicantStage :
           /\ MayMove(a, stage)
           /\ applicant' = [applicant EXCEPT ![a].stage = stage]
    /\ UNCHANGED <<accountVars, personnelVars, request, posting, interview, onboarding>>

CreateInterview(a, i) ==
    /\ Managed
    /\ interview[i] = NULL
    /\ applicant[a].stage \in {"SCREENING", "INTERVIEW"}
    /\ Waiting(a) = {}
    /\ interview' = [interview EXCEPT ![i] = [applicant_id |-> a, result |-> "PENDING"]]
    /\ applicant' = [applicant EXCEPT ![a].stage = "INTERVIEW"]
    /\ UNCHANGED <<accountVars, personnelVars, request, posting, onboarding>>

\* A held interview leaves the applicant where it is, in any stage.
UpdateInterview(i) ==
    /\ Managed
    /\ interview[i] # NULL
    /\ interview[i].result = "PENDING"
    /\ LET a == interview[i].applicant_id
       IN  \E result \in InterviewResult \ {"PENDING"} :
               /\ result \in {"PASS", "FAIL"} => applicant[a].stage = "INTERVIEW"
               /\ interview' = [interview EXCEPT ![i].result = result]
               /\ applicant' = [applicant EXCEPT ![a].stage =
                      CASE result = "PASS" -> "OFFER"
                        [] result = "FAIL" -> "REJECTED"
                        [] OTHER -> @]
    /\ UNCHANGED <<accountVars, personnelVars, request, posting, onboarding>>

\* The employee a hired applicant becomes: on probation, with a number of its own.
Hired(a, user) ==
    [user_id |-> user, email |-> applicant[a].email, terminated |-> FALSE,
     phone |-> CHOOSE p \in Phone : TRUE]

_seed_staff_menus == [m \in Menu |-> IF m \in menu \cap Preset["STAFF"] THEN TRUE ELSE NULL]

\* hire_applicant without an account, with the account of the applicant's address, or
\* with a new one for it.
HireApplicant(a) ==
    LET email == applicant[a].email
    IN  /\ StaffOf(_HR_ROLES) # {}
        /\ applicant[a].employee_id = NULL
        /\ applicant[a].stage = "OFFER"
        /\ \E e \in Employee \ Rows, create_user \in BOOLEAN :
               /\ create_user => email # NULL /\ email \notin Linked
               /\ employee' = [employee EXCEPT ![e] = Hired(a, IF create_user THEN email ELSE NULL)]
               /\ IF create_user /\ account[email] = NULL
                  THEN /\ account' = [account EXCEPT ![email] = NewAccount("STAFF", TRUE)]
                       /\ access' = [access EXCEPT ![email] = _seed_staff_menus]
                  ELSE UNCHANGED <<account, access>>
               /\ applicant' = [applicant EXCEPT ![a].stage = "HIRED", ![a].employee_id = e]
        /\ onboarding' = [onboarding EXCEPT ![a] = {}]
        /\ UNCHANGED <<menu, token, shadow, change, request, audited, posting, interview>>

CompleteTask(a) ==
    /\ Managed
    /\ onboarding[a] # NULL
    /\ \E task \in Task : onboarding' = [onboarding EXCEPT ![a] =
           IF task \in @ THEN @ \ {task} ELSE @ \cup {task}]
    /\ UNCHANGED <<accountVars, personnelVars, request, posting, applicant, interview>>

RecruitmentInit ==
    /\ posting = NULL
    /\ applicant = [a \in Applicant |-> NULL]
    /\ interview = [i \in Interview |-> NULL]
    /\ onboarding = [a \in Applicant |-> NULL]

RecruitmentNext ==
    \/ CreatePosting
    \/ UpdatePosting
    \/ \E a \in Applicant, w \in Worker : Apply(w, a)
    \/ \E w \in Worker : CommitApplicant(w)
    \/ \E a \in Applied : \/ UpdateStage(a) \/ HireApplicant(a) \/ CompleteTask(a)
                          \/ \E i \in Interview : CreateInterview(a, i)
    \/ \E i \in Interview : UpdateInterview(i)

---------------------------------------------------------------------------
RecruitmentTypeOK ==
    /\ posting \in PostingStatus \cup {NULL}
    /\ applicant \in [Applicant -> ApplicantRow \cup {NULL}]
    /\ interview \in [Interview -> InterviewRow \cup {NULL}]
    /\ onboarding \in [Applicant -> OnboardingTask \cup {NULL}]

\* An offer, and so a hire, rests on one passed interview, and a passed interview brought
\* the applicant to its offer; at most one interview is pending.  Exactly the hired have
\* an employee, one of their own, and an onboarding checklist (update_stage,
\* update_interview, hire_applicant).
OfferEarned ==
    /\ RecruitmentTypeOK
    /\ \A a \in Applied :
           /\ applicant[a].stage \in {"OFFER", "HIRED"} => Passed(a) # {}
           /\ Passed(a) # {} => applicant[a].stage \in {"OFFER", "HIRED", "REJECTED"}
           /\ Cardinality(Passed(a)) <= 1
           /\ Cardinality(Waiting(a)) <= 1
           /\ applicant[a].stage = "HIRED" <=> applicant[a].employee_id # NULL
           /\ applicant[a].stage = "HIRED" <=> onboarding[a] # NULL
           /\ applicant[a].employee_id # NULL =>
                  /\ applicant[a].employee_id \in Rows
                  /\ \A b \in Applied \ {a} : applicant[b].employee_id # applicant[a].employee_id
================================================================================
